---------------------------- MODULE Spec2Model ----------------------------
(***************************************************************************)
(* DemoComponent (src/src/app/demo/demo.component.ts) as a state machine.  *)
(*                                                                         *)
(* Values are JavaScript values, tagged by their type: the component's     *)
(* collections can hold whatever JSON.parse produced (importData does not  *)
(* validate), so an element of users may be null or an object lacking      *)
(* fields.  An object is a record with t = "object" and exactly the        *)
(* properties it has; a property that is absent reads as undefined.        *)
(* Strings are tuples of one-character strings, so that trim, toLowerCase, *)
(* includes, the e-mail pattern and localeCompare are computed.            *)
(***************************************************************************)
EXTENDS Integers, Sequences, FiniteSets

(***************************************************************************)
(* Bound of the model: the number of calls (public operations, ngOnInit,    *)
(* view bindings and timer callbacks) made on one instance.  The queries   *)
(* and ngOnDestroy, which cannot grow the state, are not counted.          *)
(***************************************************************************)
MaxOps == 3

---------------------------------------------------------------------------
(* JavaScript values *)

Undefined == [t |-> "undefined"]
Null == [t |-> "null"]
NaN == [t |-> "NaN"]
Num(n) == [t |-> "number", n |-> n]
Str(s) == [t |-> "string", s |-> s]
Bool(b) == [t |-> "boolean", b |-> b]
Arr(a) == [t |-> "array", a |-> a]
\* a Date holding a time value, and the Date whose time value is NaN
DateV(ms) == [t |-> "Date", ms |-> ms]
InvalidDate == [t |-> "InvalidDate"]
\* the string Date.prototype.toISOString produces for a time value
IsoStr(ms) == [t |-> "string", iso |-> ms]
EmptyObject == [t |-> "object"]

IsNullish(v) == v.t \in {"undefined", "null"}

\* v.f : undefined when the property is absent or v is a primitive;
\* the callers test IsNullish(v) first, where the access throws a TypeError
Get(v, f) == IF v.t = "object" /\ f \in DOMAIN v THEN v[f] ELSE Undefined

\* v.f = w on an object
Put(v, f, w) == [g \in (DOMAIN v) \cup {f} |-> IF g = f THEN w ELSE v[g]]

\* ToBoolean
Truthy(v) ==
  CASE v.t \in {"undefined", "null", "NaN"} -> FALSE
    [] v.t = "boolean" -> v.b
    [] v.t = "number" -> v.n # 0
    [] v.t = "string" -> IF "s" \in DOMAIN v THEN v.s # <<>> ELSE TRUE
    [] OTHER -> TRUE

\* a === b (on primitives; NaN equals nothing)
StrictEq(a, b) == a.t # "NaN" /\ a = b

---------------------------------------------------------------------------
(* Strings *)

Whitespace == {" "}

UpperCase == <<"A","B","C","D","E","F","G","H","I","J","K","L","M",
               "N","O","P","Q","R","S","T","U","V","W","X","Y","Z">>
LowerCase == <<"a","b","c","d","e","f","g","h","i","j","k","l","m",
               "n","o","p","q","r","s","t","u","v","w","x","y","z">>

\* String.prototype.trim
trim(s) ==
  LET keep == {i \in 1..Len(s) : s[i] \notin Whitespace}
  IN IF keep = {} THEN <<>>
     ELSE SubSeq(s, CHOOSE i \in keep : \A j \in keep : i <= j,
                    CHOOSE i \in keep : \A j \in keep : j <= i)

\* the lowercase letter of each uppercase letter
LowerOf == [c \in {UpperCase[i] : i \in 1..26} |->
              LowerCase[CHOOSE i \in 1..26 : UpperCase[i] = c]]

toLowerCaseChar(c) == IF c \in DOMAIN LowerOf THEN LowerOf[c] ELSE c

\* String.prototype.toLowerCase
toLowerCase(s) == [i \in 1..Len(s) |-> toLowerCaseChar(s[i])]

\* String.prototype.includes
includes(s, part) ==
  \E i \in 0..(Len(s) - Len(part)) : SubSeq(s, i + 1, i + Len(part)) = part

NotSpaceOrAt(s, from, to) ==
  \A i \in from..to : s[i] \notin Whitespace /\ s[i] # "@"

\* /^[^\s@]+@[^\s@]+\.[^\s@]+$/.test(email)
isValidEmail_NoTld(email) ==
  \E i \in 2..(Len(email) - 1) :
    /\ email[i] = "@"
    /\ NotSpaceOrAt(email, 1, i - 1)
    /\ NotSpaceOrAt(email, i + 1, Len(email))

isValidEmail(email) ==
  \E i \in 2..(Len(email) - 3) : \E j \in (i + 2)..(Len(email) - 1) :
    /\ email[i] = "@"
    /\ email[j] = "."
    /\ NotSpaceOrAt(email, 1, i - 1)
    /\ NotSpaceOrAt(email, i + 1, j - 1)
    /\ NotSpaceOrAt(email, j + 1, Len(email))

\* collation rank of a character: spaces and punctuation sort before digits,
\* digits before letters, letters alphabetically whatever their case
CollationOrder == <<" ", "-", ".", "@", "0","1","2","3","4","5","6","7","8","9">>
                  \o LowerCase
RankOf == [c \in {CollationOrder[i] : i \in 1..Len(CollationOrder)} |->
             CHOOSE i \in 1..Len(CollationOrder) : CollationOrder[i] = c]
Primary(c) ==
  LET l == toLowerCaseChar(c)
  IN IF l \in DOMAIN RankOf THEN RankOf[l] ELSE Len(CollationOrder) + 1
IsUpper(c) == c \in DOMAIN LowerOf

\* the first index at which two sequences of ranks differ, a missing rank
\* counting as a difference; 0 when the sequences are equal
FirstDiff(a, b) ==
  LET n == IF Len(a) < Len(b) THEN Len(a) ELSE Len(b)
      d == {i \in 1..n : a[i] # b[i]}
  IN IF d # {} THEN CHOOSE i \in d : \A j \in d : i <= j
     ELSE IF Len(a) # Len(b) THEN n + 1 ELSE 0

CaseRank(c) == IF IsUpper(c) THEN 1 ELSE 0

\* the collation key of a string: the ranks of its characters without
\* their case, then their case
CollationKey(a) ==
  [p |-> [i \in 1..Len(a) |-> Primary(a[i])],
   c |-> [i \in 1..Len(a) |-> CaseRank(a[i])]]

\* the sign of a.localeCompare(b), from the collation keys of a and b.
\* Letters compare first without their case (a shorter string first);
\* strings equal up to case compare lowercase first.
compareKeys(ka, kb) ==
  LET p == FirstDiff(ka.p, kb.p)
      c == FirstDiff(ka.c, kb.c)
  IN IF p # 0
     THEN IF p > Len(ka.p) THEN -1
          ELSE IF p > Len(kb.p) THEN 1
          ELSE IF ka.p[p] < kb.p[p] THEN -1 ELSE 1
     ELSE IF c = 0 THEN 0
          ELSE IF ka.c[c] < kb.c[c] THEN -1 ELSE 1

localeCompare(a, b) == compareKeys(CollationKey(a), CollationKey(b))

S_light == <<"l","i","g","h","t">>
S_dark == <<"d","a","r","k">>
S_blue == <<"b","l","u","e">>
S_high == <<"h","i","g","h">>
S_medium == <<"m","e","d","i","u","m">>
S_low == <<"l","o","w">>
S_undefined == <<"u","n","d","e","f","i","n","e","d">>

---------------------------------------------------------------------------
(* Records of the two collections *)

User(id, name, email, isActive) ==
  [t |-> "object", id |-> Num(id), name |-> Str(name), email |-> Str(email),
   isActive |-> Bool(isActive)]

TodoItem(id, title, completed, priority, createdAt) ==
  [t |-> "object", id |-> Num(id), title |-> Str(title),
   completed |-> Bool(completed), priority |-> Str(priority),
   createdAt |-> createdAt]

\* Time values: new Date('2024-01-0d') is time d.
SeedDay(d) == DateV(d)

InitialUsers == <<
  User(1, <<"J","o","h","n"," ","D","o","e">>,
       <<"j","o","h","n","@","e","x","a","m","p","l","e",".","c","o","m">>, TRUE),
  User(2, <<"J","a","n","e"," ","S","m","i","t","h">>,
       <<"j","a","n","e","@","e","x","a","m","p","l","e",".","c","o","m">>, FALSE),
  User(3, <<"B","o","b"," ","J","o","h","n","s","o","n">>,
       <<"b","o","b","@","e","x","a","m","p","l","e",".","c","o","m">>, TRUE),
  User(4, <<"A","l","i","c","e"," ","B","r","o","w","n">>,
       <<"a","l","i","c","e","@","e","x","a","m","p","l","e",".","c","o","m">>, TRUE),
  User(5, <<"C","h","a","r","l","i","e"," ","W","i","l","s","o","n">>,
       <<"c","h","a","r","l","i","e","@","e","x","a","m","p","l","e",".","c","o","m">>, FALSE) >>

InitialTodos == <<
  TodoItem(1, <<"C","o","m","p","l","e","t","e"," ","p","r","o","j","e","c","t"," ","s","e","t","u","p">>,
           TRUE, S_high, SeedDay(1)),
  TodoItem(2, <<"W","r","i","t","e"," ","u","n","i","t"," ","t","e","s","t","s">>,
           FALSE, S_high, SeedDay(2)),
  TodoItem(3, <<"U","p","d","a","t","e"," ","d","o","c","u","m","e","n","t","a","t","i","o","n">>,
           FALSE, S_medium, SeedDay(3)),
  TodoItem(4, <<"C","o","d","e"," ","r","e","v","i","e","w">>,
           FALSE, S_low, SeedDay(4)),
  TodoItem(5, <<"D","e","p","l","o","y"," ","t","o"," ","s","t","a","g","i","n","g">>,
           TRUE, S_medium, SeedDay(5)) >>

\* the clock of a running instance starts after the seeded dates
ClockStart == Len(InitialTodos) + 1

---------------------------------------------------------------------------
(* State *)

VARIABLES
  users,            \* User[] : a sequence of values
  selectedUser,     \* User | null : a reference, see SelRef
  userSearchTerm,   \* string
  showUserForm,     \* boolean
  todos,            \* TodoItem[]
  newTodoTitle,     \* string
  selectedPriority, \* 'low' | 'medium' | 'high'
  todoFilter,       \* "all", "active" or "completed"
  errorMessage,     \* string
  currentTime,      \* Date
  counter,          \* number
  theme,            \* a value: 'light' | 'dark' by its type, any value at run time
  statistics,       \* the five counts
  storage,          \* localStorage.getItem('demo-theme') : a string or null
  subs,             \* live subscriptions to interval(1000)
  destroyed,        \* destroy$ has completed
  stopped,          \* ngOnDestroy has returned and ngOnInit has not been
                    \* called since
  now,              \* the clock: what new Date() last read
  threw,            \* the method whose last call ended with an uncaught
                    \* exception ("": the last call returned)
  ops,              \* calls made so far (queries and ngOnDestroy apart)
  fork              \* the two orders of a call and a tick compared from one
                    \* state, see CommuteSpec; NoFork while none is

vars == <<users, selectedUser, userSearchTerm, showUserForm, todos,
          newTodoTitle, selectedPriority, todoFilter, errorMessage,
          currentTime, counter, theme, statistics, storage, subs, destroyed,
          stopped, now, threw, ops, fork>>

\* selectedUser holds a reference to an object.  While the object is an
\* element of users the reference is its position there (the actions that
\* move or remove elements move the position with the object); an object
\* that is no longer in users is held by value.
SelNone == [k |-> "null"]
SelRef(i) == [k |-> "ref", i |-> i]
SelObj(o) == [k |-> "detached", o |-> o]

\* the object selectedUser refers to
SelValue(sel, us) ==
  IF sel.k = "ref" THEN us[sel.i] ELSE IF sel.k = "detached" THEN sel.o ELSE Null

\* the reference after users has been assigned a new array of new objects
Detach(sel, us) == IF sel.k = "ref" THEN SelObj(us[sel.i]) ELSE sel

\* no comparison of the two orders is under way
NoFork == [kind |-> "none"]

ZeroStatistics ==
  [totalUsers |-> 0, activeUsers |-> 0, totalTodos |-> 0, completedTodos |-> 0,
   highPriorityTodos |-> 0]

\* what localStorage may hold under 'demo-theme' when the component is built
InitialStorage == {Null, Str(S_dark), Str(S_light), Str(S_blue)}

Init ==
  /\ users = <<>>
  /\ selectedUser = SelNone
  /\ userSearchTerm = <<>>
  /\ showUserForm = FALSE
  /\ todos = <<>>
  /\ newTodoTitle = <<>>
  /\ selectedPriority = S_medium
  /\ todoFilter = "all"
  /\ errorMessage = ""
  /\ currentTime = DateV(ClockStart)
  /\ counter = 0
  /\ theme = Str(S_light)
  /\ statistics = ZeroStatistics
  /\ storage \in InitialStorage
  /\ subs = 0
  /\ destroyed = FALSE
  /\ stopped = FALSE
  /\ now = ClockStart
  /\ threw = ""
  /\ ops = 0
  /\ fork = NoFork

\* what a call leaves in threw: its name when it throws
Thrown(name, throws) == IF throws THEN name ELSE ""

\* one more call, within the bound
Call == ops < MaxOps /\ ops' = ops + 1

\* new Date(): the clock has not gone back
ClockReadings == {now, now + 1}

---------------------------------------------------------------------------
(* Helpers of the component *)

HasNullish(seq) == \E i \in 1..Len(seq) : IsNullish(seq[i])

\* updateStatistics: u.isActive, t.completed and t.priority throw a
\* TypeError on a null element
updateStatisticsThrows(us, ts) == HasNullish(us) \/ HasNullish(ts)

calcStatistics_CountAll(us, ts) ==
  [totalUsers |-> Len(us),
   activeUsers |-> Len(us),
   totalTodos |-> Len(ts),
   completedTodos |->
     Cardinality({i \in 1..Len(ts) : Truthy(Get(ts[i], "completed"))}),
   highPriorityTodos |->
     Cardinality({i \in 1..Len(ts) : StrictEq(Get(ts[i], "priority"), Str(S_high))})]

\* the statistics with totalTodos taken from users
calcStatistics_TotalOfUsers(us, ts) ==
  [totalUsers |-> Len(us),
   activeUsers |->
     Cardinality({i \in 1..Len(us) : Truthy(Get(us[i], "isActive"))}),
   totalTodos |-> Len(us),
   completedTodos |->
     Cardinality({i \in 1..Len(ts) : Truthy(Get(ts[i], "completed"))}),
   highPriorityTodos |->
     Cardinality({i \in 1..Len(ts) : StrictEq(Get(ts[i], "priority"), Str(S_high))})]

calcStatistics(us, ts) ==
  [totalUsers |-> Len(us),
   activeUsers |->
     Cardinality({i \in 1..Len(us) : Truthy(Get(us[i], "isActive"))}),
   totalTodos |-> Len(ts),
   completedTodos |->
     Cardinality({i \in 1..Len(ts) : Truthy(Get(ts[i], "completed"))}),
   highPriorityTodos |->
     Cardinality({i \in 1..Len(ts) : StrictEq(Get(ts[i], "priority"), Str(S_high))})]

\* Math.max(...seq.map(x => x.id)) + 1, or 1 for an empty array; NaN when an
\* id is not a number.  (A null element throws: see the callers.)
getNextId(seq) ==
  LET ids == {Get(seq[i], "id") : i \in 1..Len(seq)}
  IN IF Len(seq) = 0 THEN Num(1)
     ELSE IF \E v \in ids : v.t # "number" THEN NaN
     ELSE Num((CHOOSE v \in ids : \A w \in ids : w.n <= v.n).n + 1)

\* the first index whose element is null (0: none)
FirstNullish(seq) ==
  LET s == {i \in 1..Len(seq) : IsNullish(seq[i])}
  IN IF s = {} THEN 0 ELSE CHOOSE i \in s : \A j \in s : i <= j

\* seq.findIndex(x => x.id === id), counted from 1 (0: not found)
findIndex(seq, id) ==
  LET s == {i \in 1..Len(seq) :
              ~IsNullish(seq[i]) /\ StrictEq(Get(seq[i], "id"), Num(id))}
  IN IF s = {} THEN 0 ELSE CHOOSE i \in s : \A j \in s : i <= j

\* the callback x => x.id === id reaches a null element before a match
findThrows(seq, id) ==
  /\ FirstNullish(seq) # 0
  /\ findIndex(seq, id) = 0 \/ FirstNullish(seq) < findIndex(seq, id)

RemoveAt(seq, i) == SubSeq(seq, 1, i - 1) \o SubSeq(seq, i + 1, Len(seq))

getNextUserId(us) == getNextId(us)

\* the next id taken from the count of ticks
getNextTodoId_FromCounter(ts) == Num(Len(ts) + counter + 1)

getNextTodoId(ts) == getNextId(ts)

\* loadTheme adopting whatever string is stored
loadTheme_AnyStored(stored, current) ==
  IF stored.t = "string" THEN stored ELSE current

\* loadTheme: the theme after reading the stored value
loadTheme(stored, current) ==
  IF stored = Str(S_dark) \/ stored = Str(S_light) THEN stored ELSE current

---------------------------------------------------------------------------
(* Lifecycle and timer *)

\* ngOnInit with the theme it loaded saved again
NgOnInit_SavesTheme ==
  /\ Call
  /\ theme' = loadTheme(storage, theme)
  /\ storage' = theme'
  /\ IF updateStatisticsThrows(users, todos)
     THEN /\ threw' = "ngOnInit"
          /\ UNCHANGED <<users, todos, selectedUser, statistics, subs>>
     ELSE /\ threw' = ""
          /\ subs' = subs + 1
          /\ users' = InitialUsers
          /\ todos' = InitialTodos
          /\ selectedUser' = Detach(selectedUser, users)
          /\ statistics' = calcStatistics(InitialUsers, InitialTodos)
  /\ stopped' = FALSE
  /\ UNCHANGED <<userSearchTerm, showUserForm, newTodoTitle, selectedPriority,
                 todoFilter, errorMessage, currentTime, counter, destroyed,
                 now, fork>>

\* ngOnInit: initializeData (loadTheme, updateStatistics), startTimer,
\* loadInitialUsers, loadInitialTodos.  The first updateStatistics reads the
\* collections as they are, and its exception ends the hook.
NgOnInit ==
  /\ Call
  /\ theme' = loadTheme(storage, theme)
  /\ IF updateStatisticsThrows(users, todos)
     THEN /\ threw' = "ngOnInit"
          /\ UNCHANGED <<users, todos, selectedUser, statistics, subs>>
     ELSE /\ threw' = ""
          /\ subs' = subs + 1
          /\ users' = InitialUsers
          /\ todos' = InitialTodos
          /\ selectedUser' = Detach(selectedUser, users)
          /\ statistics' = calcStatistics(InitialUsers, InitialTodos)
  /\ stopped' = FALSE
  /\ UNCHANGED <<userSearchTerm, showUserForm, newTodoTitle, selectedPriority,
                 todoFilter, errorMessage, currentTime, counter, storage,
                 destroyed, now, fork>>

\* ngOnDestroy: destroy$.next() completes the subscriptions piped through
\* takeUntil(destroy$); on a completed subject next() and complete() do
\* nothing.
destroyNextThrows_OnceCompleted(completed) == completed

\* destroy$.next() and destroy$.complete() return whether or not the
\* subject has completed (next() throws on an unsubscribed subject only)
destroyNextThrows(completed) == FALSE

NgOnDestroy ==
  /\ UNCHANGED ops
  /\ subs' = IF destroyed THEN subs ELSE 0
  /\ destroyed' = TRUE
  /\ stopped' = TRUE
  /\ threw' = Thrown("ngOnDestroy", destroyNextThrows(destroyed))
  /\ UNCHANGED <<users, selectedUser, userSearchTerm, showUserForm, todos,
                 newTodoTitle, selectedPriority, todoFilter, errorMessage,
                 currentTime, counter, theme, statistics, storage, now, fork>>

\* the callback without the assignment of currentTime
Tick_CounterOnly ==
  /\ Call
  /\ subs > 0
  /\ \E t \in ClockReadings : now' = t
  /\ counter' = counter + 1
  /\ threw' = ""
  /\ UNCHANGED <<users, selectedUser, userSearchTerm, showUserForm, todos,
                 newTodoTitle, selectedPriority, todoFilter, errorMessage,
                 currentTime, theme, statistics, storage, subs, destroyed,
                 stopped, fork>>

\* the callback of one live subscription
Tick ==
  /\ Call
  /\ subs > 0
  /\ \E t \in ClockReadings : now' = t /\ currentTime' = DateV(t)
  /\ counter' = counter + 1
  /\ threw' = ""
  /\ UNCHANGED <<users, selectedUser, userSearchTerm, showUserForm, todos,
                 newTodoTitle, selectedPriority, todoFilter, errorMessage,
                 theme, statistics, storage, subs, destroyed, stopped, fork>>

---------------------------------------------------------------------------
(* User management *)

\* the message of the failed validation, "" when the input passes
addUserError_NoShapeCheck(name, email) ==
  IF trim(name) = <<>> \/ trim(email) = <<>>
  THEN "Name and email are required"
  ELSE ""

addUserError(name, email) ==
  IF trim(name) = <<>> \/ trim(email) = <<>>
  THEN "Name and email are required"
  ELSE IF ~isValidEmail(email)
  THEN "Please enter a valid email address"
  ELSE ""

newUser(us, name, email) ==
  [t |-> "object", id |-> getNextUserId(us), name |-> Str(trim(name)),
   email |-> Str(trim(email)), isActive |-> Bool(TRUE)]

AddUser(name, email) ==
  /\ Call
  /\ IF addUserError(name, email) # ""
     THEN /\ errorMessage' = addUserError(name, email)
          /\ threw' = ""
          /\ UNCHANGED <<users, statistics, showUserForm>>
     ELSE IF HasNullish(users)   \* getNextUserId reads u.id
     THEN /\ threw' = "addUser"
          /\ UNCHANGED <<users, statistics, showUserForm, errorMessage>>
     ELSE LET us == Append(users, newUser(users, name, email))
          IN /\ users' = us
             /\ IF updateStatisticsThrows(us, todos)
                THEN /\ threw' = "addUser"
                     /\ UNCHANGED <<statistics, showUserForm, errorMessage>>
                ELSE /\ threw' = ""
                     /\ statistics' = calcStatistics(us, todos)
                     /\ errorMessage' = ""
                     /\ showUserForm' = FALSE
  /\ UNCHANGED <<selectedUser, userSearchTerm, todos, newTodoTitle,
                 selectedPriority, todoFilter, currentTime, counter, theme,
                 storage, subs, destroyed, now, stopped, fork>>

\* selectedUser after users.splice(idx, 1) and the test
\* this.selectedUser && this.selectedUser.id === userId
selectionAfterDelete(sel, us, idx, userId) ==
  IF sel.k # "null" /\ StrictEq(Get(SelValue(sel, us), "id"), Num(userId))
  THEN SelNone
  ELSE IF sel.k # "ref" THEN sel
  ELSE IF sel.i = idx THEN SelObj(us[idx])
  ELSE IF sel.i > idx THEN SelRef(sel.i - 1)
  ELSE sel

DeleteUser(userId) ==
  /\ Call
  /\ IF findThrows(users, userId)
     THEN /\ threw' = "deleteUser"
          /\ UNCHANGED <<users, selectedUser, statistics>>
     ELSE IF findIndex(users, userId) = 0
     THEN /\ threw' = ""
          /\ UNCHANGED <<users, selectedUser, statistics>>
     ELSE LET idx == findIndex(users, userId)
              us == RemoveAt(users, idx)
          IN /\ users' = us
             /\ selectedUser' = selectionAfterDelete(selectedUser, users, idx, userId)
             /\ threw' = Thrown("deleteUser",
                                 updateStatisticsThrows(us, todos))
             /\ statistics' = IF updateStatisticsThrows(us, todos)
                              THEN statistics ELSE calcStatistics(us, todos)
  /\ UNCHANGED <<userSearchTerm, showUserForm, todos, newTodoTitle,
                 selectedPriority, todoFilter, errorMessage, currentTime,
                 counter, theme, storage, subs, destroyed, now, stopped, fork>>

ToggleUserStatus(userId) ==
  /\ Call
  /\ IF findThrows(users, userId)
     THEN /\ threw' = "toggleUserStatus"
          /\ UNCHANGED <<users, statistics>>
     ELSE IF findIndex(users, userId) = 0
     THEN /\ threw' = ""
          /\ UNCHANGED <<users, statistics>>
     ELSE LET idx == findIndex(users, userId)
              u == users[idx]
              us == [users EXCEPT ![idx] =
                       Put(u, "isActive", Bool(~Truthy(Get(u, "isActive"))))]
          IN /\ users' = us
             /\ threw' = Thrown("toggleUserStatus",
                                 updateStatisticsThrows(us, todos))
             /\ statistics' = IF updateStatisticsThrows(us, todos)
                              THEN statistics ELSE calcStatistics(us, todos)
  /\ UNCHANGED <<selectedUser, userSearchTerm, showUserForm, todos,
                 newTodoTitle, selectedPriority, todoFilter, errorMessage,
                 currentTime, counter, theme, storage, subs, destroyed, now,
                 stopped, fork>>

\* selectUser(user), called by the view with an element of the list shown
SelectUser(i) ==
  /\ Call
  /\ i \in 1..Len(users)
  /\ selectedUser' = IF IsNullish(users[i]) THEN SelNone ELSE SelRef(i)
  /\ threw' = ""
  /\ UNCHANGED <<users, userSearchTerm, showUserForm, todos, newTodoTitle,
                 selectedPriority, todoFilter, errorMessage, currentTime,
                 counter, theme, statistics, storage, subs, destroyed, now,
                 stopped, fork>>

\* the filter callback of searchUsers on one element
matchesSearch(u, term) ==
  \/ includes(toLowerCase(Get(u, "name").s), toLowerCase(term))
  \/ includes(toLowerCase(Get(u, "email").s), toLowerCase(term))

\* user.name.toLowerCase() and user.email.toLowerCase() throw on a null
\* element and on a missing property; email is read only when the name
\* does not match
matchThrows(u, term) ==
  \/ IsNullish(u)
  \/ Get(u, "name").t # "string"
  \/ /\ ~includes(toLowerCase(Get(u, "name").s), toLowerCase(term))
     /\ Get(u, "email").t # "string"

searchUsersThrows(us, term) ==
  /\ trim(term) # <<>>
  /\ \E i \in 1..Len(us) : matchThrows(us[i], term)

\* searchUsers(): the users returned (when it does not throw)
searchUsers(us, term) ==
  LET Test(u) == matchesSearch(u, term)
  IN IF trim(term) = <<>> THEN us ELSE SelectSeq(us, Test)

\* a query: the state is read, not written
SearchUsers ==
  /\ threw' = Thrown("searchUsers", searchUsersThrows(users, userSearchTerm))
  /\ UNCHANGED <<users, selectedUser, userSearchTerm, showUserForm, todos,
                 newTodoTitle, selectedPriority, todoFilter, errorMessage,
                 currentTime, counter, theme, statistics, storage, subs,
                 destroyed, now, ops, stopped, fork>>

---------------------------------------------------------------------------
(* The view's bindings: [(ngModel)] and click handlers that assign a field *)

SearchTerms == {<<"j","o","h","n">>, <<" ">>}
TodoTitles == {<<" ","B","u","y"," ">>, <<" "," ">>}
PriorityInputs == {S_low, S_high}
TodoFilterInputs == {"active", "completed"}

SetUserSearchTerm(term) ==
  /\ Call
  /\ userSearchTerm' = term
  /\ threw' = ""
  /\ UNCHANGED <<users, selectedUser, showUserForm, todos, newTodoTitle,
                 selectedPriority, todoFilter, errorMessage, currentTime,
                 counter, theme, statistics, storage, subs, destroyed, now,
                 stopped, fork>>

\* the view opens the add-user form
OpenUserForm ==
  /\ Call
  /\ showUserForm' = TRUE
  /\ threw' = ""
  /\ UNCHANGED <<users, selectedUser, userSearchTerm, todos, newTodoTitle,
                 selectedPriority, todoFilter, errorMessage, currentTime,
                 counter, theme, statistics, storage, subs, destroyed, now,
                 stopped, fork>>

SetNewTodoTitle(title) ==
  /\ Call
  /\ newTodoTitle' = title
  /\ threw' = ""
  /\ UNCHANGED <<users, selectedUser, userSearchTerm, showUserForm, todos,
                 selectedPriority, todoFilter, errorMessage, currentTime,
                 counter, theme, statistics, storage, subs, destroyed, now,
                 stopped, fork>>

SetSelectedPriority(p) ==
  /\ Call
  /\ selectedPriority' = p
  /\ threw' = ""
  /\ UNCHANGED <<users, selectedUser, userSearchTerm, showUserForm, todos,
                 newTodoTitle, todoFilter, errorMessage, currentTime,
                 counter, theme, statistics, storage, subs, destroyed, now,
                 stopped, fork>>

SetTodoFilter(f) ==
  /\ Call
  /\ todoFilter' = f
  /\ threw' = ""
  /\ UNCHANGED <<users, selectedUser, userSearchTerm, showUserForm, todos,
                 newTodoTitle, selectedPriority, errorMessage, currentTime,
                 counter, theme, statistics, storage, subs, destroyed, now,
                 stopped, fork>>

---------------------------------------------------------------------------
(* Todo management *)

newTodo(ts, title, priority, t) ==
  [t |-> "object", id |-> getNextTodoId(ts), title |-> Str(trim(title)),
   completed |-> Bool(FALSE), priority |-> Str(priority),
   createdAt |-> DateV(t)]

AddTodo ==
  /\ Call
  /\ IF trim(newTodoTitle) = <<>>
     THEN /\ errorMessage' = "Todo title is required"
          /\ threw' = ""
          /\ UNCHANGED <<todos, newTodoTitle, statistics, now>>
     ELSE IF HasNullish(todos)   \* getNextTodoId reads t.id
     THEN /\ threw' = "addTodo"
          /\ UNCHANGED <<todos, newTodoTitle, statistics, now, errorMessage>>
     ELSE \E t \in ClockReadings :
          LET ts == Append(todos, newTodo(todos, newTodoTitle, selectedPriority, t))
          IN /\ now' = t
             /\ todos' = ts
             /\ newTodoTitle' = <<>>
             /\ IF updateStatisticsThrows(users, ts)
                THEN /\ threw' = "addTodo"
                     /\ UNCHANGED <<statistics, errorMessage>>
                ELSE /\ threw' = ""
                     /\ statistics' = calcStatistics(users, ts)
                     /\ errorMessage' = ""
  /\ UNCHANGED <<users, selectedUser, userSearchTerm, showUserForm,
                 selectedPriority, todoFilter, currentTime, counter, theme,
                 storage, subs, destroyed, stopped, fork>>

\* the part shared by toggleTodo and updateTodoPriority: find, assign one
\* property of the todo found, updateStatistics
UpdateTodo(name, todoId, f, value) ==
  /\ Call
  /\ IF findThrows(todos, todoId)
     THEN /\ threw' = name
          /\ UNCHANGED <<todos, statistics>>
     ELSE IF findIndex(todos, todoId) = 0
     THEN /\ threw' = ""
          /\ UNCHANGED <<todos, statistics>>
     ELSE LET idx == findIndex(todos, todoId)
              ts == [todos EXCEPT ![idx] = Put(todos[idx], f, value)]
          IN /\ todos' = ts
             /\ threw' = Thrown(name, updateStatisticsThrows(users, ts))
             /\ statistics' = IF updateStatisticsThrows(users, ts)
                              THEN statistics ELSE calcStatistics(users, ts)
  /\ UNCHANGED <<users, selectedUser, userSearchTerm, showUserForm,
                 newTodoTitle, selectedPriority, todoFilter, errorMessage,
                 currentTime, counter, theme, storage, subs, destroyed, now,
                 stopped, fork>>

ToggleTodo(todoId) ==
  LET idx == findIndex(todos, todoId)
      old == IF idx = 0 THEN Undefined ELSE Get(todos[idx], "completed")
  IN UpdateTodo("toggleTodo", todoId, "completed", Bool(~Truthy(old)))

UpdateTodoPriority(todoId, priority) ==
  UpdateTodo("updateTodoPriority", todoId, "priority", Str(priority))

DeleteTodo(todoId) ==
  /\ Call
  /\ IF findThrows(todos, todoId)
     THEN /\ threw' = "deleteTodo"
          /\ UNCHANGED <<todos, statistics>>
     ELSE IF findIndex(todos, todoId) = 0
     THEN /\ threw' = ""
          /\ UNCHANGED <<todos, statistics>>
     ELSE LET ts == RemoveAt(todos, findIndex(todos, todoId))
          IN /\ todos' = ts
             /\ threw' = Thrown("deleteTodo",
                                 updateStatisticsThrows(users, ts))
             /\ statistics' = IF updateStatisticsThrows(users, ts)
                              THEN statistics ELSE calcStatistics(users, ts)
  /\ UNCHANGED <<users, selectedUser, userSearchTerm, showUserForm,
                 newTodoTitle, selectedPriority, todoFilter, errorMessage,
                 currentTime, counter, theme, storage, subs, destroyed, now,
                 stopped, fork>>

IsCompleted(todo) == Truthy(Get(todo, "completed"))
IsNotCompleted(todo) == ~Truthy(Get(todo, "completed"))

getFilteredTodos_CompletedAll(ts, filter) ==
  CASE filter = "active" -> SelectSeq(ts, IsNotCompleted)
    [] OTHER -> ts

\* getFilteredTodos(): the todos returned
getFilteredTodos(ts, filter) ==
  CASE filter = "active" -> SelectSeq(ts, IsNotCompleted)
    [] filter = "completed" -> SelectSeq(ts, IsCompleted)
    [] OTHER -> ts

getActiveTodosCount(ts) == Len(SelectSeq(ts, IsNotCompleted))
getCompletedTodosCount(ts) == Len(SelectSeq(ts, IsCompleted))

\* todo => todo.completed throws on a null element
filterTodosThrows(ts) == HasNullish(ts)

\* the three queries on todos: the state is read, not written
GetFilteredTodos ==
  /\ threw' = Thrown("getFilteredTodos",
                      /\ todoFilter \in {"active", "completed"}
                      /\ filterTodosThrows(todos))
  /\ UNCHANGED <<users, selectedUser, userSearchTerm, showUserForm, todos,
                 newTodoTitle, selectedPriority, todoFilter, errorMessage,
                 currentTime, counter, theme, statistics, storage, subs,
                 destroyed, now, ops, stopped, fork>>

GetTodosCounts ==
  /\ threw' = Thrown("getActiveTodosCount", filterTodosThrows(todos))
  /\ UNCHANGED <<users, selectedUser, userSearchTerm, showUserForm, todos,
                 newTodoTitle, selectedPriority, todoFilter, errorMessage,
                 currentTime, counter, theme, statistics, storage, subs,
                 destroyed, now, ops, stopped, fork>>

ClearCompletedTodos ==
  /\ Call
  /\ IF filterTodosThrows(todos)
     THEN /\ threw' = "clearCompletedTodos"
          /\ UNCHANGED <<todos, statistics>>
     ELSE LET ts == SelectSeq(todos, IsNotCompleted)
          IN /\ todos' = ts
             /\ threw' = Thrown("clearCompletedTodos",
                                 updateStatisticsThrows(users, ts))
             /\ statistics' = IF updateStatisticsThrows(users, ts)
                              THEN statistics ELSE calcStatistics(users, ts)
  /\ UNCHANGED <<users, selectedUser, userSearchTerm, showUserForm,
                 newTodoTitle, selectedPriority, todoFilter, errorMessage,
                 currentTime, counter, theme, storage, subs, destroyed, now,
                 stopped, fork>>

---------------------------------------------------------------------------
(* Theme *)

\* toggleTheme, with saveTheme: localStorage.setItem('demo-theme', theme)
ToggleTheme_ClearsError ==
  /\ Call
  /\ theme' = IF StrictEq(theme, Str(S_light)) THEN Str(S_dark) ELSE Str(S_light)
  /\ storage' = theme'
  /\ threw' = ""
  /\ errorMessage' = ""
  /\ UNCHANGED <<users, selectedUser, userSearchTerm, showUserForm, todos,
                 newTodoTitle, selectedPriority, todoFilter, currentTime,
                 counter, statistics, subs, destroyed, now, stopped, fork>>

ToggleTheme ==
  /\ Call
  /\ theme' = IF StrictEq(theme, Str(S_light)) THEN Str(S_dark) ELSE Str(S_light)
  /\ storage' = theme'
  /\ threw' = ""
  /\ UNCHANGED <<users, selectedUser, userSearchTerm, showUserForm, todos,
                 newTodoTitle, selectedPriority, todoFilter, errorMessage,
                 currentTime, counter, statistics, subs, destroyed, now,
                 stopped, fork>>

---------------------------------------------------------------------------
(* Export and import *)

\* A JSON text is modelled by what JSON.parse makes of it: a syntax error,
\* or the value parsed.
BadText == [wf |-> FALSE]
Text(v) == [wf |-> TRUE, v |-> v]

\* JSON.stringify of a property value: a Date by its toJSON (the ISO string,
\* null for an invalid Date), NaN as null
jsonValue(v) ==
  CASE v.t = "Date" -> IsoStr(v.ms)
    [] v.t = "InvalidDate" -> Null
    [] v.t = "NaN" -> Null
    [] OTHER -> v

\* JSON.stringify of an element of users or todos
jsonElement(x) ==
  IF x.t = "object"
  THEN [f \in DOMAIN x |-> IF f = "t" THEN x.t ELSE jsonValue(x[f])]
  ELSE jsonValue(x)

\* exportData(): the text returned, read at clock time t
exportData(us, ts, th, t) ==
  Text([t |-> "object",
        users |-> Arr([i \in 1..Len(us) |-> jsonElement(us[i])]),
        todos |-> Arr([i \in 1..Len(ts) |-> jsonElement(ts[i])]),
        theme |-> jsonValue(th),
        exportDate |-> IsoStr(t)])

\* a query: the state is read, not written (JSON.stringify does not throw
\* on these values)
ExportData ==
  /\ threw' = ""
  /\ UNCHANGED <<users, selectedUser, userSearchTerm, showUserForm, todos,
                 newTodoTitle, selectedPriority, todoFilter, errorMessage,
                 currentTime, counter, theme, statistics, storage, subs,
                 destroyed, now, ops, stopped, fork>>

\* new Date(v)
newDate(v) ==
  CASE v.t = "undefined" -> InvalidDate
    [] v.t = "null" -> DateV(0)
    [] v.t = "number" -> DateV(v.n)
    [] v.t = "boolean" -> DateV(IF v.b THEN 1 ELSE 0)
    [] v.t = "string" -> IF "iso" \in DOMAIN v THEN DateV(v.iso) ELSE InvalidDate
    [] v.t = "Date" -> v
    [] OTHER -> InvalidDate

\* { ...todo } : the own properties of an object, none of a number or boolean
Spread(v) == IF v.t = "object" THEN v ELSE EmptyObject

\* (todo) => ({ ...todo, createdAt: new Date(todo.createdAt) })
importTodo(todo) == Put(Spread(todo), "createdAt", newDate(Get(todo, "createdAt")))

\* data.f && Array.isArray(data.f)
IsArrayField(data, f) == Truthy(Get(data, f)) /\ Get(data, f).t = "array"

\* importData: every exception raised inside the try block (by JSON.parse,
\* by data.users on null, by todo.createdAt on a null element, by
\* updateStatistics) is caught, after the assignments made before it.
ImportData(text) ==
  /\ Call
  /\ threw' = ""
  /\ IF ~text.wf \/ IsNullish(text.v)
     THEN /\ errorMessage' = "Invalid JSON data for import"
          /\ UNCHANGED <<users, selectedUser, todos, theme, statistics>>
     ELSE LET data == text.v
              us == IF IsArrayField(data, "users") THEN Get(data, "users").a ELSE users
              sel == IF IsArrayField(data, "users")
                     THEN Detach(selectedUser, users) ELSE selectedUser
              mapThrows == IsArrayField(data, "todos") /\ HasNullish(Get(data, "todos").a)
              ts == IF IsArrayField(data, "todos") /\ ~mapThrows
                    THEN [i \in 1..Len(Get(data, "todos").a) |->
                            importTodo(Get(data, "todos").a[i])]
                    ELSE todos
              th == IF Truthy(Get(data, "theme")) /\ ~mapThrows
                    THEN Get(data, "theme") ELSE theme
          IN /\ users' = us
             /\ selectedUser' = sel
             /\ todos' = ts
             /\ theme' = th
             /\ IF mapThrows \/ updateStatisticsThrows(us, ts)
                THEN /\ errorMessage' = "Invalid JSON data for import"
                     /\ UNCHANGED statistics
                ELSE /\ statistics' = calcStatistics(us, ts)
                     /\ errorMessage' = ""
  /\ UNCHANGED <<userSearchTerm, showUserForm, newTodoTitle, selectedPriority,
                 todoFilter, currentTime, counter, storage, subs, destroyed,
                 now, stopped, fork>>

---------------------------------------------------------------------------
(* Bulk operations *)

SetAll(seq, f, value) == [i \in 1..Len(seq) |-> Put(seq[i], f, value)]

\* todos.forEach(todo => todo.completed = b); updateStatistics()
MarkAllTodos(name, b) ==
  /\ Call
  /\ IF HasNullish(todos)
     THEN /\ threw' = name
          /\ todos' = SetAll(SubSeq(todos, 1, FirstNullish(todos) - 1), "completed", Bool(b))
                      \o SubSeq(todos, FirstNullish(todos), Len(todos))
          /\ UNCHANGED statistics
     ELSE LET ts == SetAll(todos, "completed", Bool(b))
          IN /\ todos' = ts
             /\ threw' = Thrown(name, updateStatisticsThrows(users, ts))
             /\ statistics' = IF updateStatisticsThrows(users, ts)
                              THEN statistics ELSE calcStatistics(users, ts)
  /\ UNCHANGED <<users, selectedUser, userSearchTerm, showUserForm,
                 newTodoTitle, selectedPriority, todoFilter, errorMessage,
                 currentTime, counter, theme, storage, subs, destroyed, now,
                 stopped, fork>>

MarkAllTodosComplete == MarkAllTodos("markAllTodosComplete", TRUE)
MarkAllTodosIncomplete == MarkAllTodos("markAllTodosIncomplete", FALSE)

\* users.forEach(user => user.isActive = b); updateStatistics().  The
\* assignment throws on a null element, after the elements before it.
SetAllUsers(name, b) ==
  /\ Call
  /\ IF HasNullish(users)
     THEN /\ threw' = name
          /\ users' = SetAll(SubSeq(users, 1, FirstNullish(users) - 1), "isActive", Bool(b))
                      \o SubSeq(users, FirstNullish(users), Len(users))
          /\ UNCHANGED statistics
     ELSE LET us == SetAll(users, "isActive", Bool(b))
          IN /\ users' = us
             /\ threw' = Thrown(name, updateStatisticsThrows(us, todos))
             /\ statistics' = IF updateStatisticsThrows(us, todos)
                              THEN statistics ELSE calcStatistics(us, todos)
  /\ UNCHANGED <<selectedUser, userSearchTerm, showUserForm, todos,
                 newTodoTitle, selectedPriority, todoFilter, errorMessage,
                 currentTime, counter, theme, storage, subs, destroyed, now,
                 stopped, fork>>

ActivateAllUsers == SetAllUsers("activateAllUsers", TRUE)
DeactivateAllUsers == SetAllUsers("deactivateAllUsers", FALSE)

---------------------------------------------------------------------------
(* Sorting *)

\* Array.prototype.sort with a comparison function, c[i][j] being the sign
\* of comparefn(seq[i], seq[j]) (NaN counting as 0).  A consistent
\* comparison function gives the stable sorted order; with any other the
\* order is implementation-defined.  An order is the sequence of the old
\* positions of the elements.  (localeCompare is consistent; a difference
\* of numbers is, unless one of them is NaN.)
ConsistentComparison(n, c) ==
  \A i, j \in 1..n :
    /\ c[i][i] = 0
    /\ c[i][j] = -c[j][i]
    /\ \A k \in 1..n :
         /\ c[i][j] = 0 /\ c[j][k] = 0 => c[i][k] = 0
         /\ c[i][j] < 0 /\ c[j][k] < 0 => c[i][k] < 0

StableOrder(n, c) ==
  LET place == [i \in 1..n |->
        1 + Cardinality({j \in 1..n : c[j][i] < 0 \/ (c[j][i] = 0 /\ j < i)})]
  IN [k \in 1..n |-> CHOOSE i \in 1..n : place[i] = k]

Orders(n) == {p \in [1..n -> 1..n] : \A i, j \in 1..n : p[i] = p[j] => i = j}

SortOrders(n, c, hasNaN) ==
  IF ~hasNaN \/ ConsistentComparison(n, c) THEN {StableOrder(n, c)} ELSE Orders(n)

Reorder(seq, p) == [k \in 1..Len(seq) |-> seq[p[k]]]

Sign(x) == IF x < 0 THEN -1 ELSE IF x > 0 THEN 1 ELSE 0

\* the string b[f] is compared with in a[f].localeCompare(b[f])
CompareKey(u, f) == IF Get(u, f).t = "string" THEN Get(u, f).s ELSE S_undefined

\* (a, b) => a[f].localeCompare(b[f]) over users
compareUsers(us, f) ==
  LET key == [i \in 1..Len(us) |-> CollationKey(CompareKey(us[i], f))]
  IN [i \in 1..Len(us) |-> [j \in 1..Len(us) |-> compareKeys(key[i], key[j])]]

\* a.name on a null element, and localeCompare of an undefined a.name, throw
\* a TypeError; an element that lacks the property throws when the sort
\* passes it as a, which depends on the engine unless every element lacks it
sortUsersMustThrow(us, f) ==
  /\ Len(us) >= 2
  /\ HasNullish(us) \/ \A i \in 1..Len(us) : Get(us[i], f).t # "string"

sortUsersMayThrow(us, f) ==
  /\ Len(us) >= 2
  /\ \E i \in 1..Len(us) : IsNullish(us[i]) \/ Get(us[i], f).t # "string"

\* the sort with selectedUser held as a position of the array
SortUsersBy_KeepsPosition(name, f) ==
  /\ Call
  /\ \/ /\ sortUsersMayThrow(users, f)
        /\ threw' = name
        /\ UNCHANGED users
     \/ /\ ~sortUsersMustThrow(users, f)
        /\ threw' = ""
        /\ users' = Reorder(users, StableOrder(Len(users), compareUsers(users, f)))
  /\ UNCHANGED <<selectedUser, userSearchTerm, showUserForm, todos,
                 newTodoTitle, selectedPriority, todoFilter, errorMessage,
                 currentTime, counter, theme, statistics, storage, subs,
                 destroyed, now, stopped, fork>>

\* users.sort(...) ; an exception leaves the array as it was
SortUsersBy(name, f) ==
  /\ Call
  /\ \/ /\ sortUsersMayThrow(users, f)
        /\ threw' = name
        /\ UNCHANGED <<users, selectedUser>>
     \/ /\ ~sortUsersMustThrow(users, f)
        /\ threw' = ""
        /\ \E p \in {StableOrder(Len(users), compareUsers(users, f))} :
             /\ users' = Reorder(users, p)
             /\ selectedUser' =
                  IF selectedUser.k = "ref"
                  THEN SelRef(CHOOSE k \in 1..Len(users) : p[k] = selectedUser.i)
                  ELSE selectedUser
  /\ UNCHANGED <<userSearchTerm, showUserForm, todos, newTodoTitle,
                 selectedPriority, todoFilter, errorMessage, currentTime,
                 counter, theme, statistics, storage, subs, destroyed, now,
                 stopped, fork>>

SortUsersByName == SortUsersBy("sortUsersByName", "name")
SortUsersByEmail == SortUsersBy("sortUsersByEmail", "email")

\* priorityOrder[p] : 3, 2, 1, or undefined (0 here) for any other value
priorityOrder(p) ==
  IF p = Str(S_high) THEN 3 ELSE IF p = Str(S_medium) THEN 2
  ELSE IF p = Str(S_low) THEN 1 ELSE 0

\* (a, b) => priorityOrder[b.priority] - priorityOrder[a.priority]
compareByPriority(ts) ==
  [i \in 1..Len(ts) |-> [j \in 1..Len(ts) |->
     LET a == priorityOrder(Get(ts[i], "priority"))
         b == priorityOrder(Get(ts[j], "priority"))
     IN IF a = 0 \/ b = 0 THEN 0 ELSE Sign(b - a)]]

\* (a, b) => b.createdAt.getTime() - a.createdAt.getTime()
compareByDate(ts) ==
  [i \in 1..Len(ts) |-> [j \in 1..Len(ts) |->
     LET a == Get(ts[i], "createdAt")
         b == Get(ts[j], "createdAt")
     IN IF a.t # "Date" \/ b.t # "Date" THEN 0 ELSE Sign(b.ms - a.ms)]]

\* b.createdAt.getTime() throws when createdAt is not a Date
sortByDateThrows(ts) ==
  /\ Len(ts) >= 2
  /\ \E i \in 1..Len(ts) :
       IsNullish(ts[i]) \/ Get(ts[i], "createdAt").t \notin {"Date", "InvalidDate"}

SortTodos(name, c, hasNaN, throws) ==
  /\ Call
  /\ threw' = Thrown(name, throws)
  /\ IF throws THEN UNCHANGED todos
     ELSE \E p \in SortOrders(Len(todos), c, hasNaN) : todos' = Reorder(todos, p)
  /\ UNCHANGED <<users, selectedUser, userSearchTerm, showUserForm,
                 newTodoTitle, selectedPriority, todoFilter, errorMessage,
                 currentTime, counter, theme, statistics, storage, subs,
                 destroyed, now, stopped, fork>>

SortTodosByPriority ==
  SortTodos("sortTodosByPriority", compareByPriority(todos),
            \E i \in 1..Len(todos) : priorityOrder(Get(todos[i], "priority")) = 0,
            Len(todos) >= 2 /\ HasNullish(todos))
SortTodosByDate ==
  SortTodos("sortTodosByDate", compareByDate(todos),
            \E i \in 1..Len(todos) : Get(todos[i], "createdAt").t # "Date",
            sortByDateThrows(todos))

---------------------------------------------------------------------------
(* Reset *)

\* resetAllData without the statistics recomputed
ResetAllData_StaleStatistics ==
  /\ Call
  /\ users' = <<>>
  /\ todos' = <<>>
  /\ selectedUser' = SelNone
  /\ userSearchTerm' = <<>>
  /\ newTodoTitle' = <<>>
  /\ errorMessage' = ""
  /\ threw' = ""
  /\ UNCHANGED <<showUserForm, selectedPriority, todoFilter, currentTime,
                 counter, theme, statistics, storage, subs, destroyed, now,
                 stopped, fork>>

ResetAllData ==
  /\ Call
  /\ users' = <<>>
  /\ todos' = <<>>
  /\ selectedUser' = SelNone
  /\ userSearchTerm' = <<>>
  /\ newTodoTitle' = <<>>
  /\ errorMessage' = ""
  /\ statistics' = calcStatistics(<<>>, <<>>)
  /\ threw' = ""
  /\ UNCHANGED <<showUserForm, selectedPriority, todoFilter, currentTime,
                 counter, theme, storage, subs, destroyed, now, stopped, fork>>

\* resetToDefaults without the assignment of theme
ResetToDefaults_KeepsTheme ==
  /\ Call
  /\ users' = InitialUsers
  /\ threw' = ""
  /\ todos' = InitialTodos
  /\ statistics' = calcStatistics(InitialUsers, InitialTodos)
  /\ selectedUser' = SelNone
  /\ userSearchTerm' = <<>>
  /\ newTodoTitle' = <<>>
  /\ errorMessage' = ""
  /\ todoFilter' = "all"
  /\ selectedPriority' = S_medium
  /\ UNCHANGED <<showUserForm, currentTime, counter, theme, storage, subs,
                 destroyed, now, stopped, fork>>

\* loadInitialUsers and loadInitialTodos each end with updateStatistics,
\* the first over the new users and the todos as they were
ResetToDefaults ==
  /\ Call
  /\ users' = InitialUsers
  /\ IF updateStatisticsThrows(InitialUsers, todos)
     THEN /\ threw' = "resetToDefaults"
          /\ selectedUser' = Detach(selectedUser, users)
          /\ UNCHANGED <<todos, userSearchTerm, newTodoTitle, errorMessage,
                         theme, todoFilter, selectedPriority, statistics>>
     ELSE /\ threw' = ""
          /\ todos' = InitialTodos
          /\ statistics' = calcStatistics(InitialUsers, InitialTodos)
          /\ selectedUser' = SelNone
          /\ userSearchTerm' = <<>>
          /\ newTodoTitle' = <<>>
          /\ errorMessage' = ""
          /\ theme' = Str(S_light)
          /\ todoFilter' = "all"
          /\ selectedPriority' = S_medium
  /\ UNCHANGED <<showUserForm, currentTime, counter, storage, subs,
                 destroyed, now, stopped, fork>>

---------------------------------------------------------------------------
(* Inputs of the calls *)

S_Al == <<"A","l">>
S_al_x_io == <<"a","l","@","x",".","i","o">>

\* (name, email) pairs given to addUser
AddUserInputs ==
  { <<<<" ","A","l"," ">>, S_al_x_io>>,
    <<<<" ">>, <<"a","l","@","x">>>>,
    <<S_Al, <<" "," ">>>>,
    <<S_Al, <<"a","l","@","x">>>>,
    <<S_Al, <<" ","a","l","@","x",".","i","o"," ">>>>,
    <<S_Al, <<"a","@",".",".","b">>>> }

\* ids given to the calls that take one: a seeded id, the first id addUser
\* and addTodo assign after the seeds, an id of no record
IdInputs == {1, 6, 9}

\* positions, in the list shown, of the user given to selectUser
SelectInputs == {1, 2}

\* texts given to importData
ImportTexts ==
  { BadText,
    Text(Null),
    Text(Num(5)),
    Text(EmptyObject),
    Text([t |-> "object", theme |-> Str(S_dark)]),
    Text([t |-> "object", theme |-> Str(S_blue)]),
    Text([t |-> "object", users |-> Str(S_blue), todos |-> Str(S_blue),
          theme |-> Str(<<>>)]),
    Text([t |-> "object", users |-> Arr(<<Null>>)]),
    Text([t |-> "object", users |-> Arr(<<>>), todos |-> Arr(<<Null>>),
          theme |-> Str(S_dark)]),
    Text([t |-> "object",
          users |-> Arr(<<User(1, S_Al, S_al_x_io, TRUE),
                          [t |-> "object", id |-> Num(1), name |-> Str(S_Al)]>>)]),
    Text([t |-> "object",
          todos |-> Arr(<<[t |-> "object", id |-> Num(1), title |-> Str(S_Al),
                           completed |-> Bool(TRUE)]>>)]),
    Text([t |-> "object",
          users |-> Arr(<<User(1, S_Al, S_al_x_io, TRUE)>>),
          todos |-> Arr(<<[t |-> "object", id |-> Num(1), title |-> Str(S_Al),
                           completed |-> Bool(FALSE), priority |-> Str(S_low),
                           createdAt |-> IsoStr(1)]>>),
          theme |-> Str(S_dark)]),
    Text([t |-> "object",
          todos |-> Arr(<<[t |-> "object", id |-> Num(1), priority |-> Str(S_low)],
                          [t |-> "object", id |-> Num(2)],
                          [t |-> "object", id |-> Num(3), priority |-> Str(S_high)]>>)]) }

\* importData is given one of the texts above, or the text exportData
\* returns in the current state
ImportInputs == ImportTexts \cup {exportData(users, todos, theme, now)}

---------------------------------------------------------------------------
(* Specification *)

Next ==
  \/ NgOnInit
  \/ NgOnDestroy
  \/ Tick
  \/ \E in \in AddUserInputs : AddUser(in[1], in[2])
  \/ \E id \in IdInputs : DeleteUser(id)
  \/ \E id \in IdInputs : ToggleUserStatus(id)
  \/ \E i \in SelectInputs : SelectUser(i)
  \/ SearchUsers
  \/ \E term \in SearchTerms : SetUserSearchTerm(term)
  \/ OpenUserForm
  \/ \E title \in TodoTitles : SetNewTodoTitle(title)
  \/ \E p \in PriorityInputs : SetSelectedPriority(p)
  \/ \E f \in TodoFilterInputs : SetTodoFilter(f)
  \/ AddTodo
  \/ \E id \in IdInputs : ToggleTodo(id)
  \/ \E id \in IdInputs : DeleteTodo(id)
  \/ \E id \in IdInputs, p \in PriorityInputs : UpdateTodoPriority(id, p)
  \/ GetFilteredTodos
  \/ GetTodosCounts
  \/ ClearCompletedTodos
  \/ ToggleTheme
  \/ ExportData
  \/ \E text \in ImportInputs : ImportData(text)
  \/ MarkAllTodosComplete
  \/ MarkAllTodosIncomplete
  \/ ActivateAllUsers
  \/ DeactivateAllUsers
  \/ SortUsersByName
  \/ SortUsersByEmail
  \/ SortTodosByPriority
  \/ SortTodosByDate
  \/ ResetAllData
  \/ ResetToDefaults

Spec == Init /\ [][Next]_vars

---------------------------------------------------------------------------
(* Claims *)

IsRecord(x) == x.t = "object"

\* the statistics counted from the collections, entry by entry
Recount(us, ts) ==
  [totalUsers |-> Len(us),
   activeUsers |->
     Cardinality({i \in 1..Len(us) : IsRecord(us[i]) /\ "isActive" \in DOMAIN us[i]
                                     /\ us[i].isActive = Bool(TRUE)}),
   totalTodos |-> Len(ts),
   completedTodos |->
     Cardinality({i \in 1..Len(ts) : IsRecord(ts[i]) /\ "completed" \in DOMAIN ts[i]
                                     /\ ts[i].completed = Bool(TRUE)}),
   highPriorityTodos |->
     Cardinality({i \in 1..Len(ts) : IsRecord(ts[i]) /\ "priority" \in DOMAIN ts[i]
                                     /\ ts[i].priority = Str(S_high)})]

\* C1: in every reachable state, once the operation has returned,
\* statistics equals the counts recomputed from the current users and todos.
C1_StatisticsCurrent == statistics = Recount(users, todos)

\* the operations that must return normally
MustReturn ==
  {"addUser", "deleteUser", "toggleUserStatus", "searchUsers", "addTodo",
   "toggleTodo", "deleteTodo", "updateTodoPriority", "getFilteredTodos",
   "clearCompletedTodos", "sortUsersByName", "sortUsersByEmail",
   "sortTodosByPriority", "sortTodosByDate", "markAllTodosComplete",
   "markAllTodosIncomplete", "activateAllUsers", "deactivateAllUsers",
   "exportData", "importData"}

\* C2: no call of addUser, deleteUser, toggleUserStatus, searchUsers,
\* addTodo, toggleTodo, deleteTodo, updateTodoPriority, getFilteredTodos,
\* clearCompletedTodos, a sort, a bulk operation, exportData or importData
\* ends with an uncaught error, whatever the state and the input.
C2_NoUncaughtError == threw \notin MustReturn

HasId(x) == IsRecord(x) /\ "id" \in DOMAIN x

\* every id held by an entry of a collection is a number > 0, and no two
\* entries hold the same id
UniquePositiveIds(seq) ==
  /\ \A i \in 1..Len(seq) :
       HasId(seq[i]) => seq[i].id.t = "number" /\ seq[i].id.n > 0
  /\ \A i, j \in 1..Len(seq) :
       i # j /\ HasId(seq[i]) /\ HasId(seq[j]) => seq[i].id # seq[j].id

\* C3: in every reachable state the ids of users, and the ids of todos, are
\* unique within the collection and positive.
C3_IdsUniquePositive == UniquePositiveIds(users) /\ UniquePositiveIds(todos)

SelectionInUsers ==
  \/ selectedUser = SelNone
  \/ selectedUser.k = "ref" /\ selectedUser.i \in 1..Len(users)

\* C4: selectUser being called only with a current element of users,
\* selectedUser is always empty or an element of users: each operation that
\* can remove the selected user from users (deleteUser, resetAllData,
\* resetToDefaults, importData) leaves selectedUser empty or an element of
\* users.
C4_SelectionInUsers ==
  [][/\ SelectionInUsers
     /\ \/ \E userId \in IdInputs : DeleteUser(userId)
        \/ ResetAllData
        \/ ResetToDefaults
        \/ \E text \in ImportInputs : ImportData(text)
     => SelectionInUsers']_vars

ImportError == "Invalid JSON data for import"

\* C5: whenever a call of importData ends with errorMessage = "Invalid JSON
\* data for import", users, todos, theme and statistics are what they were
\* before the call, and the call does not throw.
C5_ImportAllOrNothing ==
  [][(\E text \in ImportInputs : ImportData(text)) /\ errorMessage' = ImportError
       => threw' = "" /\ UNCHANGED <<users, todos, theme, statistics>>]_vars

\* C6: for every text that parses as JSON, whatever the value, importData
\* recomputes statistics and leaves errorMessage = "".
C6_ParsedImportClearsError ==
  [][\A text \in ImportInputs : text.wf /\ ImportData(text)
       => errorMessage' = "" /\ statistics' = Recount(users', todos')]_vars

\* C7: for a text that parses to a JSON object, importData replaces users
\* iff the users field is a sequence, todos iff the todos field is a
\* sequence (each element with its createdAt made a Date), and theme iff
\* the theme field is truthy; what is not replaced is untouched; a text
\* holding a theme alone changes only theme and clears errorMessage.
C7_ImportReplacesPresentFields ==
  [][\A text \in ImportInputs :
       text.wf /\ IsRecord(text.v) /\ ImportData(text)
       => LET data == text.v
              has(f) == f \in DOMAIN data
          IN /\ users' = IF has("users") /\ data.users.t = "array"
                         THEN data.users.a ELSE users
             /\ IF has("todos") /\ data.todos.t = "array"
                THEN /\ Len(todos') = Len(data.todos.a)
                     /\ \A i \in 1..Len(todos') :
                          todos'[i].createdAt.t \in {"Date", "InvalidDate"}
                ELSE todos' = todos
             /\ theme' = IF has("theme") /\ data.theme # Str(<<>>)
                         THEN data.theme ELSE theme
             /\ DOMAIN data = {"t", "theme"} /\ data.theme # Str(<<>>)
                => errorMessage' = ""]_vars

\* C8: in every reachable state importData(exportData()) leaves users,
\* todos (createdAt comparing equal) and theme what they were, statistics
\* unchanged and errorMessage = "".
C8_ExportImportRoundTrip ==
  [][ImportData(exportData(users, todos, theme, now))
       => /\ users' = users
          /\ todos' = todos
          /\ theme' = theme
          /\ statistics' = statistics
          /\ errorMessage' = ""]_vars

\* a string that is empty once leading and trailing whitespace is removed
Blank(s) == \A i \in 1..Len(s) : s[i] \in Whitespace

Count(s, c) == Cardinality({i \in 1..Len(s) : s[i] = c})

\* the shape local@domain.tld: no whitespace, exactly one "@", a non-empty
\* local part, at least one "." after the "@", and every dot-separated
\* segment after the "@" non-empty
EmailShape(email) ==
  /\ \A i \in 1..Len(email) : email[i] \notin Whitespace
  /\ Count(email, "@") = 1
  /\ LET at == CHOOSE i \in 1..Len(email) : email[i] = "@"
     IN /\ at > 1
        /\ at < Len(email)
        /\ \E j \in (at + 1)..Len(email) : email[j] = "."
        /\ email[at + 1] # "."
        /\ email[Len(email)] # "."
        /\ \A j \in (at + 1)..(Len(email) - 1) :
             ~(email[j] = "." /\ email[j + 1] = ".")

ValidAddUserInput(name, email) == ~Blank(name) /\ EmailShape(email)

\* the largest id of a collection whose entries all hold a numeric id
MaxId(seq) ==
  LET ids == {seq[i].id.n : i \in 1..Len(seq)}
  IN CHOOSE m \in ids : \A n \in ids : n <= m

\* C9: for every valid (name, email), addUser appends exactly one user at
\* the end of users, with id = (maximum existing id) + 1, or 1 when users
\* is empty, the trimmed name and email and isActive = true; the existing
\* users and their order are unchanged; afterwards errorMessage = "" and
\* showUserForm = false.
C9_AddUserAppends ==
  [][\A in \in AddUserInputs :
       ValidAddUserInput(in[1], in[2]) /\ AddUser(in[1], in[2])
       => /\ Len(users') = Len(users) + 1
          /\ SubSeq(users', 1, Len(users)) = users
          /\ \A i \in 1..Len(users) : HasId(users[i]) /\ users[i].id.t = "number"
          /\ users'[Len(users')] =
               User(IF users = <<>> THEN 1 ELSE MaxId(users) + 1,
                    trim(in[1]), trim(in[2]), TRUE)
          /\ errorMessage' = ""
          /\ showUserForm' = FALSE]_vars

\* the state other than errorMessage is what it was before the call
NothingElseChanged ==
  UNCHANGED <<users, selectedUser, userSearchTerm, showUserForm, todos,
              newTodoTitle, selectedPriority, todoFilter, currentTime,
              counter, theme, statistics, storage, subs, destroyed, now,
              stopped>>

\* C10: a validation failure mutates nothing but errorMessage: addUser with
\* a name or an email that is empty after trimming sets "Name and email are
\* required" (whatever the shape of the email), addUser with a non-empty
\* name and an email the shape check rejects sets "Please enter a valid
\* email address", addTodo with newTodoTitle empty after trimming sets "Todo
\* title is required", and in each case the rest of the state is unchanged.
C10_ValidationFailureMutatesNothing ==
  [][/\ \A in \in AddUserInputs :
          AddUser(in[1], in[2])
          => /\ Blank(in[1]) \/ Blank(in[2])
                => /\ errorMessage' = "Name and email are required"
                   /\ NothingElseChanged
             /\ ~Blank(in[1]) /\ ~Blank(in[2]) /\ ~isValidEmail(in[2])
                => /\ errorMessage' = "Please enter a valid email address"
                   /\ NothingElseChanged
     /\ AddTodo /\ Blank(newTodoTitle)
        => /\ errorMessage' = "Todo title is required"
           /\ NothingElseChanged]_vars

\* addUser has rejected an email on the seeded users with the form open
C10_Witness ==
  /\ errorMessage = "Please enter a valid email address"
  /\ showUserForm = TRUE
  /\ users = InitialUsers
  /\ statistics = Recount(users, todos)
  /\ ops > 0

\* C11: for every name and email that are valid after trimming leading and
\* trailing whitespace, addUser succeeds and stores a user whose name and
\* email are the trimmed values.
C11_AddUserTrims ==
  [][\A in \in AddUserInputs :
       ~Blank(in[1]) /\ EmailShape(trim(in[2])) /\ AddUser(in[1], in[2])
       => /\ Len(users') = Len(users) + 1
          /\ Get(users'[Len(users')], "name") = Str(trim(in[1]))
          /\ Get(users'[Len(users')], "email") = Str(trim(in[2]))
          /\ errorMessage' = ""]_vars

\* C12: addUser accepts an email exactly when it has the shape
\* local@domain.tld (no whitespace, exactly one "@", a non-empty local part,
\* at least one "." after the "@", every dot-separated segment after the
\* "@" non-empty); every other non-blank email is rejected with
\* errorMessage = "Please enter a valid email address" and no user stored.
C12_EmailAcceptedIffShape ==
  [][\A in \in AddUserInputs :
       ~Blank(in[1]) /\ ~Blank(in[2]) /\ AddUser(in[1], in[2])
       => IF EmailShape(in[2])
          THEN Len(users') = Len(users) + 1
          ELSE /\ errorMessage' = "Please enter a valid email address"
               /\ users' = users]_vars

\* a collection holds an entry with the id
HoldsId(seq, id) == \E i \in 1..Len(seq) : HasId(seq[i]) /\ seq[i].id = Num(id)

\* the state a call leaves alone when it is a no-op
NoOp ==
  UNCHANGED <<users, selectedUser, userSearchTerm, showUserForm, todos,
              newTodoTitle, selectedPriority, todoFilter, errorMessage,
              currentTime, counter, theme, statistics, storage, subs,
              destroyed, now, stopped>>

\* C13: in every reachable state and for every id, after deleteUser(id) no
\* user with that id remains in users, and deleteUser(id) called when no
\* user has the id (as a second deleteUser(id) is) leaves users and the
\* rest of the state unchanged.
C13_DeleteUserRemovesId ==
  [][\A id \in IdInputs :
       DeleteUser(id)
       => /\ ~HoldsId(users', id)
          /\ ~HoldsId(users, id) => NoOp]_vars

\* C14: for every sequence of ngOnInit (start) and ngOnDestroy (stop)
\* calls, once a call of ngOnDestroy has returned and until the next call
\* of ngOnInit no tick is delivered: counter and currentTime do not change.
C14_NoTickAfterStop ==
  [][stopped => counter' = counter /\ currentTime' = currentTime]_vars

\* C15: ngOnDestroy (stop) is idempotent: a call of ngOnDestroy that follows
\* a call of ngOnDestroy, with or without a call of ngOnInit before them,
\* does not fail and leaves the state of the component unchanged.
C15_StopIdempotent ==
  [][NgOnDestroy /\ stopped => threw' = "" /\ NoOp]_vars

\* ngOnDestroy has returned on a started component, whose subscription it
\* has cancelled
C15_Witness ==
  /\ stopped
  /\ destroyed
  /\ subs = 0
  /\ users = InitialUsers
  /\ threw = ""

\* C16: in every reachable state theme is 'light' or 'dark'.
C16_ThemeLightOrDark == theme \in {Str(S_light), Str(S_dark)}

UserErrors == {"Name and email are required", "Please enter a valid email address"}
TodoErrors == {"Todo title is required"}

\* C17 as stated: an errorMessage set by a failed operation is cleared only
\* by an operation of the same category (a user-validation error by
\* addUser, a todo-validation error by addTodo, an import error by
\* importData); the operations of another category leave it unchanged.
C17_ClearedBySameCategoryOnly ==
  [][errorMessage # "" /\ errorMessage' = ""
     => \/ errorMessage \in UserErrors
           /\ \E in \in AddUserInputs : AddUser(in[1], in[2])
        \/ errorMessage \in TodoErrors /\ AddTodo
        \/ errorMessage = ImportError
           /\ \E text \in ImportInputs : ImportData(text)]_vars

\* the calls that assign errorMessage
AssignsErrorMessage ==
  \/ \E in \in AddUserInputs : AddUser(in[1], in[2])
  \/ AddTodo
  \/ \E text \in ImportInputs : ImportData(text)
  \/ ResetAllData
  \/ ResetToDefaults

\* C17: errorMessage is one field shared by all operations.  A call of
\* addUser or addTodo that returns after appending, a call of resetAllData
\* and a call of resetToDefaults that returns set it to "", whichever
\* operation had set it; importData leaves "" or "Invalid JSON data for
\* import"; only addUser, addTodo, importData, resetAllData and
\* resetToDefaults ever change it.
C17_ClearedByAnySuccess ==
  [][/\ errorMessage' # errorMessage => AssignsErrorMessage
     /\ \A in \in AddUserInputs :
          AddUser(in[1], in[2]) /\ Len(users') > Len(users) /\ threw' = ""
          => errorMessage' = ""
     /\ AddTodo /\ Len(todos') > Len(todos) /\ threw' = ""
        => errorMessage' = ""
     /\ (\E text \in ImportInputs : ImportData(text))
        => errorMessage' \in {"", ImportError}
     /\ ResetAllData \/ (ResetToDefaults /\ threw' = "")
        => errorMessage' = ""]_vars

\* a failed addUser has set its message and the call of addTodo that comes
\* next appends a todo: the title typed is not blank and a call is left
C17_Witness ==
  /\ errorMessage \in UserErrors
  /\ ~Blank(newTodoTitle)
  /\ ~updateStatisticsThrows(users, todos)
  /\ ops < MaxOps

\* C18: when newTodoTitle is not empty after trimming, addTodo appends
\* exactly one todo at the end of todos, with id = (maximum existing todo
\* id) + 1, or 1 when todos is empty, title = the trimmed newTodoTitle,
\* completed = false, priority = selectedPriority and createdAt = now; the
\* existing todos are unchanged; afterwards newTodoTitle = "" and
\* errorMessage = "".
C18_AddTodoAppends ==
  [][AddTodo /\ ~Blank(newTodoTitle)
     => /\ Len(todos') = Len(todos) + 1
        /\ SubSeq(todos', 1, Len(todos)) = todos
        /\ \A i \in 1..Len(todos) : HasId(todos[i]) /\ todos[i].id.t = "number"
        /\ todos'[Len(todos')] =
             TodoItem(IF todos = <<>> THEN 1 ELSE MaxId(todos) + 1,
                      trim(newTodoTitle), FALSE, selectedPriority, DateV(now'))
        /\ newTodoTitle' = <<>>
        /\ errorMessage' = ""]_vars

\* the position of the first entry holding the id
FirstWithId(seq, id) ==
  CHOOSE i \in 1..Len(seq) :
    /\ HasId(seq[i]) /\ seq[i].id = Num(id)
    /\ \A j \in 1..(i - 1) : ~(HasId(seq[j]) /\ seq[j].id = Num(id))

\* two collections differ at most by the entry at a position
SameButAt(new, old, i) ==
  /\ Len(new) = Len(old)
  /\ \A j \in 1..Len(old) : j # i => new[j] = old[j]

\* the reference held by selectedUser once the entry at a position has been
\* removed from users: the same object
SameSelectionWithout(i) ==
  IF selectedUser.k # "ref" THEN selectedUser' = selectedUser
  ELSE IF selectedUser.i < i THEN selectedUser' = selectedUser
  ELSE IF selectedUser.i > i THEN selectedUser' = SelRef(selectedUser.i - 1)
  ELSE selectedUser' = SelObj(users[i])

\* what neither a user operation nor a todo operation by id may change
RestUnchanged ==
  UNCHANGED <<userSearchTerm, showUserForm, newTodoTitle, selectedPriority,
              todoFilter, errorMessage, currentTime, counter, theme, storage,
              subs, destroyed, now, stopped>>

\* C19: for an id that matches no entry, each of deleteUser,
\* toggleUserStatus, toggleTodo, deleteTodo and updateTodoPriority leaves
\* the entire state unchanged and does not fail; for an id that matches,
\* only the first entry with the id (removed by the deletes, modified by
\* the others) and statistics change.
C19_NotFoundIsNoOp ==
  [][\A id \in IdInputs :
       /\ DeleteUser(id)
          => IF ~HoldsId(users, id) THEN NoOp /\ threw' = ""
             ELSE /\ users' = RemoveAt(users, FirstWithId(users, id))
                  /\ SameSelectionWithout(FirstWithId(users, id))
                  /\ todos' = todos
                  /\ RestUnchanged
       /\ ToggleUserStatus(id)
          => IF ~HoldsId(users, id) THEN NoOp /\ threw' = ""
             ELSE /\ SameButAt(users', users, FirstWithId(users, id))
                  /\ UNCHANGED <<selectedUser, todos>>
                  /\ RestUnchanged
       /\ DeleteTodo(id)
          => IF ~HoldsId(todos, id) THEN NoOp /\ threw' = ""
             ELSE /\ todos' = RemoveAt(todos, FirstWithId(todos, id))
                  /\ UNCHANGED <<selectedUser, users>>
                  /\ RestUnchanged
       /\ ToggleTodo(id) \/ (\E p \in PriorityInputs : UpdateTodoPriority(id, p))
          => IF ~HoldsId(todos, id) THEN NoOp /\ threw' = ""
             ELSE /\ SameButAt(todos', todos, FirstWithId(todos, id))
                  /\ UNCHANGED <<selectedUser, users>>
                  /\ RestUnchanged]_vars

\* part occurs in s
Contains(s, part) ==
  \E i \in 0..(Len(s) - Len(part)) : SubSeq(s, i + 1, i + Len(part)) = part

\* the name or the email of the entry contains the term, whatever the case
NameOrEmailHas(u, term) ==
  \E f \in {"name", "email"} :
    /\ IsRecord(u) /\ f \in DOMAIN u /\ u[f].t = "string"
    /\ Contains(toLowerCase(u[f].s), toLowerCase(term))

\* the entries of a collection whose name or email contains the term, in
\* stored order
Matching(seq, term) ==
  LET Test(u) == NameOrEmailHas(u, term) IN SelectSeq(seq, Test)

\* C20: searchUsers is a pure query that returns: with a search term that
\* is empty or only whitespace, all users in stored order; otherwise, in
\* stored order, exactly the users whose name or email contains the term
\* as a case-insensitive substring (over the 5 seeded users, 'john' yields
\* exactly John Doe and Bob Johnson).
C20_SearchUsersResult ==
  /\ threw # "searchUsers"
  /\ ~searchUsersThrows(users, userSearchTerm)
     => /\ searchUsers(users, userSearchTerm) =
             IF Blank(userSearchTerm) THEN users
             ELSE Matching(users, userSearchTerm)
        /\ users = InitialUsers /\ userSearchTerm = <<"j","o","h","n">>
           => searchUsers(users, userSearchTerm) =
                <<InitialUsers[1], InitialUsers[3]>>

\* a todo whose completed flag is set
Done(todo) ==
  IsRecord(todo) /\ "completed" \in DOMAIN todo /\ todo.completed = Bool(TRUE)

\* r holds exactly the entries of seq at the positions in S, in the order
\* they have in seq
IsSelectionOf(r, seq, S) ==
  /\ Len(r) = Cardinality(S)
  /\ \A i \in S : r[Cardinality({j \in S : j <= i})] = seq[i]

\* what the three todo queries return in the current state
FilteredTodosResults ==
  LET active == getFilteredTodos(todos, "active")
      completed == getFilteredTodos(todos, "completed")
  IN /\ IsSelectionOf(active, todos, {i \in 1..Len(todos) : ~Done(todos[i])})
     /\ IsSelectionOf(completed, todos, {i \in 1..Len(todos) : Done(todos[i])})
     /\ getFilteredTodos(todos, "all") = todos
     /\ getFilteredTodos(todos, "other") = todos
     /\ \A k \in 1..Len(active) : \A l \in 1..Len(completed) :
          active[k] # completed[l]
     /\ \A i \in 1..Len(todos) :
          \/ \E k \in 1..Len(active) : active[k] = todos[i]
          \/ \E l \in 1..Len(completed) : completed[l] = todos[i]
     /\ Len(active) = getActiveTodosCount(todos)
     /\ Len(completed) = getCompletedTodosCount(todos)

\* C21: getFilteredTodos is a pure query by todoFilter: "active" returns
\* exactly the incomplete todos, "completed" exactly the completed todos,
\* "all" or any other value the full list, each in stored order; the
\* "active" and "completed" results are disjoint, together contain every
\* todo, and their sizes are getActiveTodosCount() and
\* getCompletedTodosCount(); the three queries return and change nothing.
C21_FilteredTodos ==
  /\ [](FilteredTodosResults
        /\ threw \notin {"getFilteredTodos", "getActiveTodosCount"})
  /\ [][GetFilteredTodos \/ GetTodosCounts => NoOp]_vars

\* the seeded todos, two of them completed, shown under the "completed"
\* filter
C21_Witness ==
  /\ todos = InitialTodos
  /\ todoFilter = "completed"
  /\ Len(getFilteredTodos(todos, todoFilter)) = 2
  /\ threw = ""

\* C22: clearCompletedTodos removes every completed todo and nothing else:
\* afterwards todos is exactly the previously incomplete todos in their
\* previous relative order, statistics.completedTodos = 0, users is
\* unchanged, and a clearCompletedTodos called when no todo is completed
\* (as a second one is) changes nothing.
C22_ClearCompletedTodos ==
  [][ClearCompletedTodos
       => /\ IsSelectionOf(todos', todos,
                           {i \in 1..Len(todos) : ~Done(todos[i])})
          /\ statistics'.completedTodos = 0
          /\ users' = users
          /\ RestUnchanged /\ selectedUser' = selectedUser
          /\ (\A i \in 1..Len(todos) : ~Done(todos[i])) => NoOp]_vars

\* the severity of a todo's priority: high 3, medium 2, low 1 (0: the todo
\* holds none of the three)
Severity(todo) ==
  IF ~IsRecord(todo) \/ "priority" \notin DOMAIN todo THEN 0
  ELSE CASE todo.priority = Str(S_high) -> 3
         [] todo.priority = Str(S_medium) -> 2
         [] todo.priority = Str(S_low) -> 1
         [] OTHER -> 0

\* no todo comes before a todo of a higher priority
NonIncreasingPriorities(ts) ==
  \A k, l \in 1..Len(ts) :
    k < l /\ Severity(ts[k]) > 0 /\ Severity(ts[l]) > 0
    => Severity(ts[k]) >= Severity(ts[l])

\* new holds the entries of old, those of equal priority in the order they
\* had in old
StablePermutation(new, old) ==
  /\ Len(new) = Len(old)
  /\ \E p \in Orders(Len(old)) :
       /\ new = Reorder(old, p)
       /\ \A k, l \in 1..Len(old) :
            k < l /\ Severity(new[k]) = Severity(new[l]) => p[k] < p[l]

\* C23: in every reachable state, after sortTodosByPriority the sequence of
\* todo priorities is non-increasing under high > medium > low, the todos
\* are a permutation of the todos before the call, and todos of equal
\* priority keep their previous relative order.
C23_SortTodosByPriority ==
  [][SortTodosByPriority
       => /\ NonIncreasingPriorities(todos')
          /\ StablePermutation(todos', todos)]_vars

\* C24: from any reachable state, after resetAllData users and todos are
\* empty, selectedUser is empty, userSearchTerm, newTodoTitle and
\* errorMessage are "", and statistics is exactly {0,0,0,0,0}; the call
\* returns.
C24_ResetAllData ==
  [][ResetAllData
       => /\ users' = <<>>
          /\ todos' = <<>>
          /\ selectedUser' = SelNone
          /\ userSearchTerm' = <<>>
          /\ newTodoTitle' = <<>>
          /\ errorMessage' = ""
          /\ statistics' = [totalUsers |-> 0, activeUsers |-> 0,
                            totalTodos |-> 0, completedTodos |-> 0,
                            highPriorityTodos |-> 0]
          /\ threw' = ""]_vars

\* resetAllData has emptied a started component: the subscription made by
\* ngOnInit, which seeded the collections, is live and nothing is left
C24_Witness ==
  /\ subs > 0
  /\ users = <<>>
  /\ todos = <<>>
  /\ selectedUser = SelNone
  /\ statistics = ZeroStatistics
  /\ errorMessage = ""
  /\ threw = ""

\* C25: from any reachable state, after resetToDefaults users and todos
\* equal the 5 seeded users and 5 seeded todos, statistics = {totalUsers 5,
\* activeUsers 3, totalTodos 5, completedTodos 2, highPriorityTodos 2},
\* selectedUser is empty, userSearchTerm, newTodoTitle and errorMessage are
\* "", theme = light, todoFilter = all and selectedPriority = medium; the
\* call returns.
C25_ResetToDefaults ==
  [][ResetToDefaults
       => /\ users' = InitialUsers /\ Len(users') = 5
          /\ todos' = InitialTodos /\ Len(todos') = 5
          /\ statistics' = [totalUsers |-> 5, activeUsers |-> 3,
                            totalTodos |-> 5, completedTodos |-> 2,
                            highPriorityTodos |-> 2]
          /\ selectedUser' = SelNone
          /\ userSearchTerm' = <<>>
          /\ newTodoTitle' = <<>>
          /\ errorMessage' = ""
          /\ theme' = Str(S_light)
          /\ todoFilter' = "all"
          /\ selectedPriority' = S_medium
          /\ threw' = ""]_vars

\* resetToDefaults has seeded a component that was never started and whose
\* theme had been toggled to dark (the stored theme still is)
C25_Witness ==
  /\ subs = 0
  /\ ~destroyed
  /\ users = InitialUsers
  /\ todos = InitialTodos
  /\ theme = Str(S_light)
  /\ storage = Str(S_dark)
  /\ ops = 2
  /\ threw = ""

\* the state other than theme is what it was before the call
OnlyThemeChanged ==
  UNCHANGED <<users, selectedUser, userSearchTerm, showUserForm, todos,
              newTodoTitle, selectedPriority, todoFilter, errorMessage,
              currentTime, counter, statistics, storage, subs, destroyed,
              now>>

\* C26: loadTheme adopts the value stored under 'demo-theme' only when it is
\* exactly 'dark' or 'light'; for any other stored value, or when the key
\* is absent, theme is left unchanged; loadTheme changes nothing else and
\* never fails.  loadTheme is the first step of ngOnInit: every call of
\* ngOnInit leaves that theme and the stored value as it was, ends with an
\* exception only when its next step (updateStatistics) throws, and then
\* has changed nothing but theme.
C26_LoadTheme ==
  [][NgOnInit
       => /\ theme' = IF storage \in {Str(S_dark), Str(S_light)}
                      THEN storage ELSE theme
          /\ storage' = storage
          /\ threw' # "" => updateStatisticsThrows(users, todos)
                            /\ OnlyThemeChanged]_vars

\* the first call made on an instance built over a store holding 'dark' was
\* ngOnInit, which has adopted it
C26_Witness ==
  /\ ops = 1
  /\ subs = 1
  /\ storage = Str(S_dark)
  /\ theme = Str(S_dark)
  /\ threw = ""

\* the theme toggleTheme makes of a theme that is light or dark
Flipped(th) == IF th = Str(S_light) THEN Str(S_dark) ELSE Str(S_light)

\* C27: toggleTheme flips theme between light and dark and then writes the
\* new theme under 'demo-theme': after toggleTheme theme is light or dark
\* and is not what it was, the stored value equals the current theme, a
\* following loadTheme leaves theme unchanged, and a second toggleTheme
\* (which makes Flipped of the theme it finds) restores the original theme.
C27_ToggleTheme ==
  [][ToggleTheme
       => /\ theme' \in {Str(S_light), Str(S_dark)}
          /\ theme' # theme
          /\ storage' = theme'
          /\ loadTheme(storage', theme') = theme'
          /\ Flipped(theme') = theme]_vars

\* C28: the statistics recomputation tolerates empty and malformed
\* collections: over the users and todos of every reachable state, entries
\* that are not records (null) included, updateStatistics completes and
\* counts the records only; over empty collections it yields all-zero
\* statistics.
C28_RecomputeTolerant ==
  /\ ~updateStatisticsThrows(users, todos)
  /\ calcStatistics(users, todos) = Recount(users, todos)
  /\ users = <<>> /\ todos = <<>>
     => calcStatistics(users, todos) = ZeroStatistics

\* C29: each tick delivered while subscribed sets currentTime to now and
\* increases counter by exactly 1, changing nothing else; counter is a
\* non-negative integer that never decreases, and no other operation
\* (resetAllData, resetToDefaults and importData included) changes it.
C29_TickAdvancesCounter ==
  /\ [](counter \in Nat)
  /\ [][/\ Tick => /\ subs > 0
                   /\ counter' = counter + 1
                   /\ currentTime' = DateV(now')
                   /\ now' >= now
                   /\ UNCHANGED <<users, selectedUser, userSearchTerm,
                                  showUserForm, todos, newTodoTitle,
                                  selectedPriority, todoFilter, errorMessage,
                                  theme, statistics, storage, subs,
                                  destroyed>>
        /\ counter' >= counter
        /\ counter' # counter \/ currentTime' # currentTime => Tick]_vars

\* on a started component one tick has been delivered and resetAllData has
\* been called: the counter is 1 over the emptied collections
C29_Witness ==
  /\ subs > 0
  /\ counter = 1
  /\ currentTime = DateV(now)
  /\ users = <<>>
  /\ todos = <<>>
  /\ threw = ""

\* C30: ngOnInit (start) performs, in this order, the theme load from the
\* store, a statistics computation, the subscription to the tick source,
\* the seeding of the 5 default users and of the 5 default todos, with
\* statistics recomputed after each seed: every call of ngOnInit returns
\* with the theme loaded, one more subscription, the seeds in place and
\* statistics = {5, 3, 5, 2, 2}; a subscription is made by ngOnInit only,
\* so that a tick is delivered only after an ngOnInit has returned with the
\* seeded data in place.
C30_StartSequence ==
  [][/\ NgOnInit
        => /\ threw' = ""
           /\ theme' = loadTheme(storage, theme)
           /\ subs' = subs + 1
           /\ users' = InitialUsers
           /\ todos' = InitialTodos
           /\ statistics' = [totalUsers |-> 5, activeUsers |-> 3,
                             totalTodos |-> 5, completedTodos |-> 2,
                             highPriorityTodos |-> 2]
     /\ subs' > subs
        => NgOnInit /\ users' = InitialUsers /\ todos' = InitialTodos
     /\ Tick => subs > 0]_vars

\* a user of users is selected
UserSelected == selectedUser.k = "ref" /\ selectedUser.i \in 1..Len(users)

\* C31: selectUser sets selectedUser unconditionally and with reference
\* semantics: selectUser(u) makes selectedUser the user given; while the
\* selected user is stored in users, toggleUserStatus, activateAllUsers and
\* deactivateAllUsers leave it selected and the isActive read through
\* selectedUser is the stored user's; sortUsersByName and sortUsersByEmail
\* leave the same user selected at its new place.
C31_SelectionIsReference ==
  [][/\ \A i \in SelectInputs :
          SelectUser(i) => SelValue(selectedUser', users') = users[i]
     /\ /\ UserSelected
        /\ \/ \E id \in IdInputs : ToggleUserStatus(id)
           \/ ActivateAllUsers
           \/ DeactivateAllUsers
        => /\ selectedUser' = selectedUser
           /\ Get(SelValue(selectedUser', users'), "isActive")
                = Get(users'[selectedUser.i], "isActive")
           /\ Get(SelValue(selectedUser', users'), "id")
                = Get(users[selectedUser.i], "id")
     /\ UserSelected /\ (SortUsersByName \/ SortUsersByEmail)
        => /\ UserSelected'
           /\ SelValue(selectedUser', users') = SelValue(selectedUser, users)]_vars

\* John Doe, selected at the head of the seeded users, is still the
\* selected user after sortUsersByName has moved him to the last place
C31_Witness ==
  /\ selectedUser = SelRef(5)
  /\ users[5] = InitialUsers[1]
  /\ users[1] = InitialUsers[4]
  /\ threw = ""

\* the records of new are those of old, one for one and in the same order,
\* but for the property f, which is value in each
SameButFlag(new, old, f, value) ==
  /\ Len(new) = Len(old)
  /\ \A i \in 1..Len(old) :
       /\ IsRecord(new[i])
       /\ Get(new[i], "id") = Get(old[i], "id")
       /\ Get(new[i], f) = value
       /\ \A g \in (DOMAIN old[i]) \ {f} : g \in DOMAIN new[i] /\ new[i][g] = old[i][g]

\* every record holds the value under f already
AllFlagged(seq, f, value) == \A i \in 1..Len(seq) : Get(seq[i], f) = value

\* C32: the bulk operations set the flag on every record and recompute
\* statistics: after markAllTodosComplete statistics.completedTodos =
\* statistics.totalTodos, after markAllTodosIncomplete
\* statistics.completedTodos = 0, after activateAllUsers
\* statistics.activeUsers = statistics.totalUsers, after deactivateAllUsers
\* statistics.activeUsers = 0; each changes neither the number, the ids nor
\* the order of the records, and changes nothing when the flag is already
\* set on every record (idempotence).
C32_BulkOperations ==
  [][/\ MarkAllTodosComplete
        => /\ SameButFlag(todos', todos, "completed", Bool(TRUE))
           /\ statistics'.completedTodos = statistics'.totalTodos
           /\ statistics'.totalTodos = Len(todos')
           /\ AllFlagged(todos, "completed", Bool(TRUE)) => NoOp
     /\ MarkAllTodosIncomplete
        => /\ SameButFlag(todos', todos, "completed", Bool(FALSE))
           /\ statistics'.completedTodos = 0
           /\ statistics'.totalTodos = Len(todos')
           /\ AllFlagged(todos, "completed", Bool(FALSE)) => NoOp
     /\ ActivateAllUsers
        => /\ SameButFlag(users', users, "isActive", Bool(TRUE))
           /\ statistics'.activeUsers = statistics'.totalUsers
           /\ statistics'.totalUsers = Len(users')
           /\ AllFlagged(users, "isActive", Bool(TRUE)) => NoOp
     /\ DeactivateAllUsers
        => /\ SameButFlag(users', users, "isActive", Bool(FALSE))
           /\ statistics'.activeUsers = 0
           /\ statistics'.totalUsers = Len(users')
           /\ AllFlagged(users, "isActive", Bool(FALSE)) => NoOp]_vars

\* the payload exportData returns in the current state
Payload == exportData(users, todos, theme, now).v

\* the payload holds the current users, todos and theme, in stored order,
\* the createdAt of each todo as the ISO-8601 string of its time
PayloadIsCurrentState ==
  /\ Payload.users.a = users
  /\ Len(Payload.todos.a) = Len(todos)
  /\ \A i \in 1..Len(todos) :
       LET out == Payload.todos.a[i]
       IN /\ DOMAIN out = DOMAIN todos[i]
          /\ \A g \in (DOMAIN out) \ {"createdAt"} : out[g] = todos[i][g]
          /\ todos[i].createdAt.t = "Date"
          /\ out.createdAt = IsoStr(todos[i].createdAt.ms)
  /\ Payload.theme = theme

\* C33: exportData is a pure query: it changes no state, and its payload's
\* users, todos (createdAt as ISO-8601 strings) and theme are exactly the
\* current users, todos and theme in stored order.
C33_ExportDataPure ==
  /\ [](PayloadIsCurrentState /\ threw # "exportData")
  /\ [][ExportData => NoOp]_vars

\* C34: in every reachable state the statistics counters are mutually
\* consistent: all five are non-negative, activeUsers <= totalUsers,
\* completedTodos <= totalTodos and highPriorityTodos <= totalTodos.
C34_StatisticsConsistent ==
  /\ \A f \in DOMAIN statistics : statistics[f] \in Nat
  /\ DOMAIN statistics = {"totalUsers", "activeUsers", "totalTodos",
                          "completedTodos", "highPriorityTodos"}
  /\ statistics.activeUsers <= statistics.totalUsers
  /\ statistics.completedTodos <= statistics.totalTodos
  /\ statistics.highPriorityTodos <= statistics.totalTodos

\* statistics counted over the seeded users and todos after the first todo
\* was deleted: 3 of 5 users active, 1 of 4 todos completed
C34_Witness ==
  /\ statistics.totalUsers = 5
  /\ statistics.activeUsers = 3
  /\ statistics.totalTodos = 4
  /\ statistics.completedTodos = 1
  /\ statistics = calcStatistics(users, todos)

---------------------------------------------------------------------------
(* A call and a tick in both orders *)

\* the fields of the component and of the model around it
State ==
  [users |-> users, selectedUser |-> selectedUser,
   userSearchTerm |-> userSearchTerm, showUserForm |-> showUserForm,
   todos |-> todos, newTodoTitle |-> newTodoTitle,
   selectedPriority |-> selectedPriority, todoFilter |-> todoFilter,
   errorMessage |-> errorMessage, currentTime |-> currentTime,
   counter |-> counter, theme |-> theme, statistics |-> statistics,
   storage |-> storage, subs |-> subs, destroyed |-> destroyed,
   stopped |-> stopped, now |-> now, threw |-> threw, ops |-> ops]

\* a todo without its createdAt
Undated(todo) == [f \in (DOMAIN todo) \ {"createdAt"} |-> todo[f]]

\* the component's state up to currentTime and createdAt values: without
\* the readings of the clock, the count of calls and the exception of the
\* last call
Outcome(st) ==
  [f \in (DOMAIN st) \ {"currentTime", "now", "ops", "threw"} |->
     IF f = "todos" THEN [i \in 1..Len(st.todos) |-> Undated(st.todos[i])]
     ELSE st[f]]

\* one call of a public method that changes the component, named with its
\* argument
CallOf(c) ==
  \/ c.name = "ngOnInit" /\ NgOnInit
  \/ c.name = "addUser" /\ AddUser(c.arg[1], c.arg[2])
  \/ c.name = "deleteUser" /\ DeleteUser(c.arg)
  \/ c.name = "toggleUserStatus" /\ ToggleUserStatus(c.arg)
  \/ c.name = "selectUser" /\ SelectUser(c.arg)
  \/ c.name = "userSearchTerm" /\ SetUserSearchTerm(c.arg)
  \/ c.name = "showUserForm" /\ OpenUserForm
  \/ c.name = "newTodoTitle" /\ SetNewTodoTitle(c.arg)
  \/ c.name = "selectedPriority" /\ SetSelectedPriority(c.arg)
  \/ c.name = "todoFilter" /\ SetTodoFilter(c.arg)
  \/ c.name = "addTodo" /\ AddTodo
  \/ c.name = "toggleTodo" /\ ToggleTodo(c.arg)
  \/ c.name = "deleteTodo" /\ DeleteTodo(c.arg)
  \/ c.name = "updateTodoPriority" /\ UpdateTodoPriority(c.arg[1], c.arg[2])
  \/ c.name = "clearCompletedTodos" /\ ClearCompletedTodos
  \/ c.name = "toggleTheme" /\ ToggleTheme
  \/ c.name = "importData" /\ ImportData(c.arg)
  \/ c.name = "importData(exportData())"
       /\ ImportData(exportData(users, todos, theme, now))
  \/ c.name = "markAllTodosComplete" /\ MarkAllTodosComplete
  \/ c.name = "markAllTodosIncomplete" /\ MarkAllTodosIncomplete
  \/ c.name = "activateAllUsers" /\ ActivateAllUsers
  \/ c.name = "deactivateAllUsers" /\ DeactivateAllUsers
  \/ c.name = "sortUsersByName" /\ SortUsersByName
  \/ c.name = "sortUsersByEmail" /\ SortUsersByEmail
  \/ c.name = "sortTodosByPriority" /\ SortTodosByPriority
  \/ c.name = "sortTodosByDate" /\ SortTodosByDate
  \/ c.name = "resetAllData" /\ ResetAllData
  \/ c.name = "resetToDefaults" /\ ResetToDefaults

\* From a state in which a tick can be delivered, one call and one tick are
\* taken in the order named by kind, the state they reach is kept in
\* fork.out, the component is put back in the state they started from, and
\* the first of the two is taken in the other order.  The count of calls
\* starts again so that the two fit the bound.
Save(kind, name, arg) ==
  /\ fork = NoFork
  /\ subs > 0
  /\ ops < MaxOps
  /\ ops' = 0
  /\ fork' = [kind |-> kind, op |-> [name |-> name, arg |-> arg],
              from |-> [State EXCEPT !.ops = 0], out |-> <<>>]
  /\ UNCHANGED <<users, selectedUser, userSearchTerm, showUserForm, todos,
                 newTodoTitle, selectedPriority, todoFilter, errorMessage,
                 currentTime, counter, theme, statistics, storage, subs,
                 destroyed, stopped, now, threw>>

ForkKinds == {"callThenTick", "tickThenCall"}

Fork ==
  \E kind \in ForkKinds :
    \/ Save(kind, "ngOnInit", 0)
    \/ \E in \in AddUserInputs : Save(kind, "addUser", in)
    \/ \E id \in IdInputs : Save(kind, "deleteUser", id)
    \/ \E id \in IdInputs : Save(kind, "toggleUserStatus", id)
    \/ \E i \in SelectInputs : Save(kind, "selectUser", i)
    \/ \E term \in SearchTerms : Save(kind, "userSearchTerm", term)
    \/ Save(kind, "showUserForm", 0)
    \/ \E title \in TodoTitles : Save(kind, "newTodoTitle", title)
    \/ \E p \in PriorityInputs : Save(kind, "selectedPriority", p)
    \/ \E f \in TodoFilterInputs : Save(kind, "todoFilter", f)
    \/ Save(kind, "addTodo", 0)
    \/ \E id \in IdInputs : Save(kind, "toggleTodo", id)
    \/ \E id \in IdInputs : Save(kind, "deleteTodo", id)
    \/ \E id \in IdInputs, p \in PriorityInputs :
         Save(kind, "updateTodoPriority", <<id, p>>)
    \/ Save(kind, "clearCompletedTodos", 0)
    \/ Save(kind, "toggleTheme", 0)
    \/ \E text \in ImportTexts : Save(kind, "importData", text)
    \/ Save(kind, "importData(exportData())", 0)
    \/ Save(kind, "markAllTodosComplete", 0)
    \/ Save(kind, "markAllTodosIncomplete", 0)
    \/ Save(kind, "activateAllUsers", 0)
    \/ Save(kind, "deactivateAllUsers", 0)
    \/ Save(kind, "sortUsersByName", 0)
    \/ Save(kind, "sortUsersByEmail", 0)
    \/ Save(kind, "sortTodosByPriority", 0)
    \/ Save(kind, "sortTodosByDate", 0)
    \/ Save(kind, "resetAllData", 0)
    \/ Save(kind, "resetToDefaults", 0)

\* the order being taken: the one named by fork.kind until its state is
\* kept, the other one after
CallFirst == (fork.kind = "callThenTick") = (fork.out = <<>>)

\* the call is due
CallTurn == fork.kind # "none" /\ ops = (IF CallFirst THEN 0 ELSE 1)

\* the tick is due
TickTurn == fork.kind # "none" /\ ops = (IF CallFirst THEN 1 ELSE 0)

ForkCall == CallTurn /\ CallOf(fork.op)

ForkTick == TickTurn /\ Tick

\* keep the state reached and go back to the state the fork started from
Record ==
  /\ fork.kind # "none"
  /\ fork.out = <<>>
  /\ ops = 2
  /\ fork' = [fork EXCEPT !.out = <<State>>]
  /\ users' = fork.from.users
  /\ selectedUser' = fork.from.selectedUser
  /\ userSearchTerm' = fork.from.userSearchTerm
  /\ showUserForm' = fork.from.showUserForm
  /\ todos' = fork.from.todos
  /\ newTodoTitle' = fork.from.newTodoTitle
  /\ selectedPriority' = fork.from.selectedPriority
  /\ todoFilter' = fork.from.todoFilter
  /\ errorMessage' = fork.from.errorMessage
  /\ currentTime' = fork.from.currentTime
  /\ counter' = fork.from.counter
  /\ theme' = fork.from.theme
  /\ statistics' = fork.from.statistics
  /\ storage' = fork.from.storage
  /\ subs' = fork.from.subs
  /\ destroyed' = fork.from.destroyed
  /\ stopped' = fork.from.stopped
  /\ now' = fork.from.now
  /\ threw' = fork.from.threw
  /\ ops' = fork.from.ops

\* the calls before the fork: one fewer than the bound
Prefix == fork = NoFork /\ Next /\ ops' < MaxOps

NextCommute == Prefix \/ Fork \/ ForkCall \/ ForkTick \/ Record

CommuteSpec == Init /\ [][NextCommute]_vars

\* what the call leaves: the outcome without the count of ticks
CallPart(st) == [f \in (DOMAIN Outcome(st)) \ {"counter"} |-> Outcome(st)[f]]

\* the call has one outcome in state st: the order a sort leaves, and
\* whether it throws, are the engine's choice when the comparator is
\* inconsistent or throws for some pairs only
OneOutcome(c, st) ==
  CASE c.name \in {"sortUsersByName", "sortUsersByEmail"} ->
         LET f == IF c.name = "sortUsersByName" THEN "name" ELSE "email"
         IN sortUsersMayThrow(st.users, f) => sortUsersMustThrow(st.users, f)
    [] c.name = "sortTodosByPriority" ->
         \/ Len(st.todos) >= 2 /\ HasNullish(st.todos)
         \/ \A i \in 1..Len(st.todos) :
              priorityOrder(Get(st.todos[i], "priority")) # 0
         \/ ConsistentComparison(Len(st.todos), compareByPriority(st.todos))
    [] c.name = "sortTodosByDate" ->
         \/ sortByDateThrows(st.todos)
         \/ \A i \in 1..Len(st.todos) : Get(st.todos[i], "createdAt").t = "Date"
         \/ ConsistentComparison(Len(st.todos), compareByDate(st.todos))
    [] OTHER -> TRUE

\* the state one order reached is kept
Kept == fork.kind # "none" /\ fork.out # <<>>

\* C35: a tick commutes with every call that changes the component: from a
\* state in which it can be delivered, the states reached by the call and
\* then the tick are the states reached by the tick and then the call, up
\* to currentTime and createdAt values, so that users, todos, statistics
\* and ids are the same in either order.  A call with one outcome reaches
\* the same state in both orders; a call whose outcome is the engine's
\* choice can make, before or after the tick, the choice it made in the
\* other order, and the states are then the same.
C35_TickCommutes ==
  /\ Kept /\ ops = 2
       /\ (OneOutcome(fork.op, fork.from)
             \/ CallPart(State) = CallPart(fork.out[1]))
       => Outcome(State) = Outcome(fork.out[1])
  /\ Kept /\ CallTurn /\ ~OneOutcome(fork.op, fork.from)
       => ENABLED (/\ CallOf(fork.op)
                   /\ CallPart(State)' = CallPart(fork.out[1]))

\* a todo was added after a tick and, from the same state, before a tick:
\* the same todo but for its date, counter one more either way
C35_Witness ==
  /\ Kept /\ ops = 2
  /\ fork.kind = "tickThenCall"
  /\ fork.op.name = "addTodo"
  /\ Len(todos) = Len(fork.from.todos) + 1
  /\ counter = fork.from.counter + 1
  /\ Outcome(State) = Outcome(fork.out[1])
  /\ \E i \in 1..Len(todos) : todos[i] # fork.out[1].todos[i]

\* C36: only toggleTheme writes the value stored under 'demo-theme', and it
\* stores the theme it has just set; importData adopting a theme,
\* resetToDefaults resetting theme to light, ngOnInit and ngOnDestroy leave
\* the stored value as it was.  The stored value is read by loadTheme inside
\* ngOnInit only: any other change of theme is the flip of toggleTheme, the
\* theme of the imported text or the 'light' of resetToDefaults, whatever
\* is stored.
C36_OnlyToggleThemeWritesStore ==
  [][/\ storage' # storage => ToggleTheme
     /\ ToggleTheme => storage' = theme'
     /\ \/ storage' = storage
        \/ ~(\/ NgOnInit
             \/ NgOnDestroy
             \/ ResetToDefaults
             \/ \E text \in ImportInputs : ImportData(text))
     /\ theme' # theme =>
          \/ NgOnInit /\ theme' = storage
          \/ ToggleTheme /\ theme' = Flipped(theme)
          \/ ResetToDefaults /\ theme' = Str(S_light)
          \/ \E text \in ImportInputs :
               ImportData(text) /\ theme' = Get(text.v, "theme")]_vars

\* on a started instance theme is 'light' while 'dark' is stored: theme was
\* set by resetToDefaults or importData, and the store kept what toggleTheme
\* wrote or what it held from the start
C36_Witness ==
  /\ subs > 0
  /\ storage = Str(S_dark)
  /\ theme = Str(S_light)
  /\ threw = ""

===========================================================================
